---- MODULE Spec2Model ----
(***************************************************************************)
(* Route and coverage optimisation engine of the homeless-aid platform:    *)
(* backend/models/route_optimizer.py (class RouteOptimizer) and the HTTP   *)
(* handlers of backend/api/route_api.py that call it.                      *)
(*                                                                         *)
(* Numbers.  The code computes in floating point; the model computes in    *)
(* integers:                                                               *)
(*   - a coordinate is a pair <<lat, lon>> in units of 1/111 degree, the   *)
(*     step the code itself uses to turn kilometres into degrees;          *)
(*   - a distance is in metres (the code: kilometres);                     *)
(*   - an accessibility score is in hundredths, a coverage score in        *)
(*     ten-thousandths (the code: a float in [0, 1]);                      *)
(*   - a workload, fleet coverage or balance score is in thousandths;      *)
(*   - money is in hundredths of a cent, time in minutes.                  *)
(* The code rounds the distance, cost and score of a Route for display;    *)
(* the model keeps them as computed.                                       *)
(* Python lists are sequences; Python indices (from 0) are kept and        *)
(* converted at each access by At and Slice.                               *)
(***************************************************************************)
EXTENDS Integers, Sequences, FiniteSets, TLC

VARIABLES
    locations_cache,    \* RouteOptimizer.locations_cache
    distance_cache,     \* RouteOptimizer.distance_cache
    weights,            \* RouteOptimizer.weights
    request,            \* per thread: the arguments of its _solve_tsp call
    frame,              \* per thread: the locals of that call and its position
    now,                \* datetime.now(): the day the server's clock shows
    last,               \* the HTTP request served last, and its response
    prev                \* the response before it, when last was sent again

vars == <<locations_cache, distance_cache, weights, request, frame, now, last,
          prev>>

(***************************************************************************)
(* Bounds of the model.                                                    *)
(***************************************************************************)
MaxStops == 4           \* longest list of stops in a request
MaxVolunteers == 2      \* longest list of volunteers in a request
MaxResources == 2       \* longest list of resources in a request
MaxServices == 2        \* longest list of service locations in a request
MaxClock == 1           \* last day the clock reaches

(***************************************************************************)
(* Python list primitives.                                                 *)
(***************************************************************************)
At(seq, i) == seq[i + 1]                         \* seq[i]

Slice(seq, a, b) == SubSeq(seq, a + 1, b)        \* seq[a:b]

Reversed(seq) == [k \in 1..Len(seq) |-> seq[Len(seq) + 1 - k]]   \* seq[::-1]

\* seq.remove(x): drops the first element equal to x
Remove(seq, x) ==
    LET k == CHOOSE k \in 1..Len(seq) :
                 seq[k] = x /\ \A m \in 1..(k - 1) : seq[m] # x
    IN  SubSeq(seq, 1, k - 1) \o SubSeq(seq, k + 1, Len(seq))

\* a dict is a function on its keys; {} is the function on no key
EmptyDict == [key \in {} |-> 0]

Get(dict, key, default) == IF key \in DOMAIN dict THEN dict[key] ELSE default   \* dict.get

RECURSIVE Sum(_)
Sum(seq) == IF seq = <<>> THEN 0 ELSE Head(seq) + Sum(Tail(seq))         \* sum(seq)

Max(a, b) == IF a >= b THEN a ELSE b

Min(a, b) == IF a <= b THEN a ELSE b

(***************************************************************************)
(* Geodesy.                                                                *)
(***************************************************************************)
UnitsPerDegree == 111

\* (R * 1000 * pi / (180 * 111))^2: the square of the length in metres of
\* one coordinate unit of arc on a sphere of radius R = 6371 km
MetresPerUnitSq == 1003515

RECURSIVE SqrtSearch(_, _, _)
SqrtSearch(n, lo, hi) ==
    IF lo >= hi THEN lo
    ELSE LET mid == (lo + hi + 1) \div 2
         IN  IF mid * mid <= n THEN SqrtSearch(n, mid, hi)
                               ELSE SqrtSearch(n, lo, mid - 1)

\* np.sqrt, rounded down to an integer
Sqrt(n) == SqrtSearch(n, 0, 46340)

\* a distance that counts only the way north and the way east from loc1
HaversineDistance_Forward(loc1, loc2) ==
    LET dlat == Max(0, loc2[1] - loc1[1])
        dlon == Max(0, loc2[2] - loc1[2])
    IN  Sqrt(MetresPerUnitSq * (dlat * dlat + dlon * dlon))

\* _haversine_distance, in metres.  The model's coordinates lie within a
\* fraction of a degree of each other and of the equator, where
\* sin x = x, cos lat = 1 and arctan2(sqrt a, sqrt(1 - a)) = sqrt a hold to
\* less than a metre, so that R * c = R * sqrt(dlat^2 + dlon^2) (angles in
\* radians): the formula below differs from the code's value by less than
\* one metre on every pair of points the model uses.  No domain check is
\* made: the code makes none.
HaversineDistance(loc1, loc2) ==
    LET lat1 == loc1[1]
        lon1 == loc1[2]
        lat2 == loc2[1]
        lon2 == loc2[2]
        dlat == lat2 - lat1
        dlon == lon2 - lon1
        a    == dlat * dlat + dlon * dlon
    IN  Sqrt(MetresPerUnitSq * a)

LatLon(loc) == <<loc.lat, loc.lon>>              \* (loc.lat, loc.lon)

\* for i in range(len(segment) - 1): total += distance(segment[i], segment[i + 1])
RECURSIVE Legs(_, _)
Legs(segment, n) ==
    IF n <= 0 THEN 0
    ELSE Legs(segment, n - 1)
         + HaversineDistance(LatLon(segment[n]), LatLon(segment[n + 1]))

\* _route_segment_distance
RouteSegmentDistance(start, segment) ==
    IF segment = <<>> THEN 0
    ELSE HaversineDistance(start, LatLon(segment[1]))
         + Legs(segment, Len(segment) - 1)

(***************************************************************************)
(* The requests the model sends.  The service area lies on the equator,    *)
(* its east edge on the antimeridian (longitude 180 degrees), so that      *)
(* points just outside the coordinate domain are neighbours of points      *)
(* inside it.                                                              *)
(***************************************************************************)
LatLimit == 90 * UnitsPerDegree         \* latitude is in [-90, 90] degrees
LonLimit == 180 * UnitsPerDegree        \* longitude is in [-180, 180] degrees

AreaLon == LonLimit - 6                 \* west edge of the service area

Pt(lat, east) == <<lat, AreaLon + east>>

\* a destination dict of a request body
Dest(id, p, wait) == [id |-> id, lat |-> p[1], lon |-> p[2], wait_time |-> wait]

\* Stops 3 and 4 are equally far, to the metre, from the start Pt(3, 4),
\* stops 2 and 5 from stop 4; stop 4 is 5008 m from stop 1, just beyond the
\* clustering radius, and within it of stop 2.
Catalog ==
    << Dest(1, Pt(0, 0), 15), Dest(2, Pt(1, 1), 20), Dest(3, Pt(4, 1), 30),
       Dest(4, Pt(0, 5), 0),  Dest(5, Pt(4, 6), 10) >>

StartPoints == {Pt(0, 0), Pt(3, 4)}

\* two stops that mirror each other in the equator: from a point on the
\* equator the code's floats give both the same distance, bit for bit
TieCatalog == << Dest(6, Pt(-1, 2), 0), Dest(7, Pt(1, 2), 0) >>

\* four stops south-west of Pt(0, 0): the nearest one, stop 13, lies
\* between stop 14 and the other two, so that the shortest order from
\* Pt(0, 0) begins with stop 14
DetourCatalog ==
    << Dest(11, Pt(-3, -2), 0), Dest(12, Pt(-3, -1), 0), Dest(13, Pt(-2, 0), 0),
       Dest(14, Pt(-2, 2), 0) >>

\* the lists of at most n distinct entries of a catalog, in every order
Lists(catalog, n) ==
    UNION { { [k \in 1..len |-> catalog[ix[k]]] :
                ix \in { f \in [1..len -> 1..Len(catalog)] :
                           \A x, y \in 1..len : x # y => f[x] # f[y] } } :
            len \in 0..n }

DestLists(n) == Lists(Catalog, n)

(***************************************************************************)
(* optimize_multi_stop_route: destination dicts to Location objects.       *)
(* name, type and hours are carried along by the code and never read by    *)
(* the optimiser; they are left out.  accessibility_score is not passed    *)
(* to the constructor and keeps the dataclass default.                     *)
(***************************************************************************)
ToLocation(dest) ==
    [id |-> dest.id, lat |-> dest.lat, lon |-> dest.lon,
     wait_time_avg |-> Get(dest, "wait_time", 0), accessibility_score |-> 0]

ToLocations(destinations) ==
    [k \in 1..Len(destinations) |-> ToLocation(destinations[k])]

(***************************************************************************)
(* _solve_tsp: nearest-neighbour construction.                             *)
(***************************************************************************)
\* the nearest unvisited location, the lowest id first among equals
Nearest_LowestId(current, unvisited) ==
    LET key(k) == HaversineDistance(current, LatLon(unvisited[k]))
    IN  unvisited[CHOOSE k \in 1..Len(unvisited) :
                      \A m \in 1..Len(unvisited) :
                          \/ key(k) < key(m)
                          \/ key(k) = key(m) /\ unvisited[k].id <= unvisited[m].id]

\* min(unvisited, key=distance from current): the first of the unvisited
\* locations whose distance from current is minimal
Nearest(current, unvisited) ==
    LET key(k) == HaversineDistance(current, LatLon(unvisited[k]))
    IN  unvisited[CHOOSE k \in 1..Len(unvisited) :
                      /\ \A m \in 1..Len(unvisited) : key(k) <= key(m)
                      /\ \A m \in 1..(k - 1) : key(m) > key(k)]

RECURSIVE NearestNeighbour(_, _, _)
NearestNeighbour(current, unvisited, route) ==
    IF unvisited = <<>> THEN route
    ELSE LET nearest == Nearest(current, unvisited)
         IN  NearestNeighbour(LatLon(nearest), Remove(unvisited, nearest),
                              Append(route, nearest))

(***************************************************************************)
(* _two_opt_improve.                                                       *)
(***************************************************************************)
max_iterations == 100

\* the three-part sum the code takes of a route cut after positions i and j
SplitDistance(start, route, i, j) ==
    RouteSegmentDistance(start, Slice(route, 0, i + 1))
    + RouteSegmentDistance(LatLon(At(route, i)), Slice(route, i + 1, j + 1))
    + RouteSegmentDistance(LatLon(At(route, j)), Slice(route, j + 1, Len(route)))

\* a reversal of everything up to position j, the first stop included
ReverseSegment_FromFirst(route, i, j) ==
    Reversed(Slice(route, 0, j + 1)) \o Slice(route, j + 1, Len(route))

\* a reversal whose slice starts and ends one position early
ReverseSegment_OffByOne(route, i, j) ==
    Slice(route, 0, i + 1) \o Reversed(Slice(route, i, j))
    \o Slice(route, j + 1, Len(route))

\* new_route: the segment at positions i+1..j reversed
ReverseSegment(route, i, j) ==
    Slice(route, 0, i + 1) \o Reversed(Slice(route, i + 1, j + 1))
    \o Slice(route, j + 1, Len(route))

\* a comparison that takes only a gain of more than a kilometre
Accepts_ByAKilometre(new_dist, current_dist) == new_dist + 1000 < current_dist

\* a comparison the wrong way round
Accepts_Longer(new_dist, current_dist) == new_dist > current_dist

\* if new_dist < current_dist
Accepts(new_dist, current_dist) == new_dist < current_dist

\* the body of the inner loop for one pair (i, j)
TwoOptPair(start, route, i, j) ==
    LET current_dist == SplitDistance(start, route, i, j)
        new_route    == ReverseSegment(route, i, j)
        new_dist     == SplitDistance(start, new_route, i, j)
    IN  IF Accepts(new_dist, current_dist)
        THEN [route |-> new_route, improved |-> TRUE]
        ELSE [route |-> route, improved |-> FALSE]

\* for i in range(n - 1): for j in range(i + 2, n): the pairs, in order
HasPair(n) == n >= 3
IsLastPair(n, i, j) == j + 1 >= n /\ i + 3 >= n
NextPair(n, i, j) == IF j + 1 < n THEN <<i, j + 1>> ELSE <<i + 1, i + 3>>

\* a loop test that forgets the improved flag
Continues_Unflagged(improved, iterations) == iterations < max_iterations

\* while improved and iterations < max_iterations
Continues(improved, iterations) == improved /\ iterations < max_iterations

RECURSIVE TwoOptPass(_, _, _, _, _)
TwoOptPass(start, route, improved, i, j) ==
    LET r   == TwoOptPair(start, route, i, j)
        imp == improved \/ r.improved
        n   == Len(route)
    IN  IF IsLastPair(n, i, j) THEN [route |-> r.route, improved |-> imp]
        ELSE TwoOptPass(start, r.route, imp, NextPair(n, i, j)[1],
                        NextPair(n, i, j)[2])

RECURSIVE TwoOptLoop(_, _, _, _)
TwoOptLoop(start, route, improved, iterations) ==
    IF ~Continues(improved, iterations) THEN route
    ELSE IF ~HasPair(Len(route))
         THEN TwoOptLoop(start, route, FALSE, iterations + 1)
         ELSE LET p == TwoOptPass(start, route, FALSE, 0, 2)
              IN  TwoOptLoop(start, p.route, p.improved, iterations + 1)

TwoOptImprove(start, route) == TwoOptLoop(start, route, TRUE, 0)

\* _solve_tsp as a function of its arguments
SolveTsp(start, locations) ==
    IF locations = <<>> THEN <<>>
    ELSE TwoOptImprove(start, NearestNeighbour(start, locations, <<>>))

(***************************************************************************)
(* _estimate_travel_time, _estimate_travel_cost.                           *)
(***************************************************************************)
Speed(transport_mode) ==                 \* km/h; speeds.get(transport_mode, 25)
    CASE transport_mode = "walking" -> 5
      [] transport_mode = "cycling" -> 15
      [] transport_mode = "public_transport" -> 25
      [] transport_mode = "driving" -> 40
      [] OTHER -> 25

\* int((distance_km / speed) * 60), of a distance in metres
EstimateTravelTime(distance, transport_mode) ==
    (distance * 60) \div (Speed(transport_mode) * 1000)

\* 2.5 + max(0, (distance_km - 5) * 0.3) by public transport, distance_km *
\* 0.5 driving, 0.0 otherwise
EstimateTravelCost(distance, transport_mode) ==
    CASE transport_mode = "public_transport" ->
             25000 + Max(0, (distance - 5000) * 3)
      [] transport_mode = "driving" -> distance * 5
      [] OTHER -> 0

(***************************************************************************)
(* _build_route, _calculate_route_accessibility.                           *)
(***************************************************************************)
\* loc.accessibility_score or 0.7, in hundredths
ScoreOrDefault(score) == IF score # 0 THEN score ELSE 70

CalculateRouteAccessibility(locations) ==
    IF locations = <<>> THEN 100
    ELSE Sum([k \in 1..Len(locations) |->
                 ScoreOrDefault(locations[k].accessibility_score)])
         \div Len(locations)

\* the loop of _build_route over the locations left, from the point current
RECURSIVE RouteTotals(_, _, _, _)
RouteTotals(current, locations, transport, totals) ==
    IF locations = <<>> THEN totals
    ELSE LET location == Head(locations)
             dest     == LatLon(location)
             distance == HaversineDistance(current, dest)
             time     == EstimateTravelTime(distance, transport)
             cost     == EstimateTravelCost(distance, transport)
         IN  RouteTotals(dest, Tail(locations), transport,
                 [distance |-> totals.distance + distance,
                  time     |-> totals.time + time + location.wait_time_avg,
                  cost     |-> totals.cost + cost])

\* return Route(...)
Route(start, locations, transport, totals) ==
    [locations           |-> locations,
     total_distance      |-> totals.distance,
     total_time          |-> totals.time,
     transport_modes     |-> [k \in 1..Len(locations) |-> transport],
     cost                |-> totals.cost,
     accessibility_score |-> CalculateRouteAccessibility(locations),
     waypoints           |-> <<start>> \o [k \in 1..Len(locations) |->
                                              LatLon(locations[k])]]

\* an assembler that stops before the stop that would take the route over
\* max_time minutes or max_distance kilometres
BuildRoute_Enforcing(start, locations, constraints) ==
    LET transport == Get(constraints, "transport_mode", "driving")
        totals(n) == RouteTotals(start, SubSeq(locations, 1, n), transport,
                                 [distance |-> 0, time |-> 0, cost |-> 0])
        fits(n)   == /\ "max_time" \in DOMAIN constraints
                            => totals(n).time <= constraints.max_time
                     /\ "max_distance" \in DOMAIN constraints
                            => totals(n).distance <= 1000 * constraints.max_distance
        kept      == CHOOSE n \in 0..Len(locations) :
                         /\ \A m \in 0..n : fits(m)
                         /\ n < Len(locations) => ~fits(n + 1)
    IN  Route(start, SubSeq(locations, 1, kept), transport, totals(kept))

BuildRoute(start, locations, constraints) ==
    LET transport == Get(constraints, "transport_mode", "driving")
    IN  Route(start, locations, transport,
              RouteTotals(start, locations, transport,
                          [distance |-> 0, time |-> 0, cost |-> 0]))

(***************************************************************************)
(* optimize_multi_stop_route.                                              *)
(***************************************************************************)
\* route_data
RouteData(route_order, route) ==
    [route               |-> route,
     order               |-> [k \in 1..Len(route_order) |-> route_order[k].id],
     total_distance      |-> route.total_distance,
     total_time          |-> route.total_time,
     estimated_cost      |-> route.cost,
     accessibility_score |-> route.accessibility_score,
     waypoints           |-> route.waypoints,
     transport_modes     |-> route.transport_modes,
     alternatives        |-> <<>>]

\* from route_order on
RouteOfOrder(start_location, route_order, constraints) ==
    RouteData(route_order, BuildRoute(start_location, route_order, constraints))

OptimizeMultiStopRoute(start_location, destinations, constraints) ==
    RouteOfOrder(start_location,
                 SolveTsp(start_location, ToLocations(destinations)),
                 constraints)

(***************************************************************************)
(* _cluster_locations.                                                     *)
(***************************************************************************)
max_cluster_radius == 5000               \* 5.0 km

\* a test against a radius of 6 km
InRadius_Wider(seed, individual) ==
    HaversineDistance(LatLon(seed), LatLon(individual)) <= 6000

\* the test that puts an individual in the cluster of seed
InRadius(seed, individual) ==
    HaversineDistance(LatLon(seed), LatLon(individual)) <= max_cluster_radius

\* a loop that leaves the clustered individuals in the list
Remaining_KeepsAll(seed, unclustered) == unclustered

\* remaining: the individuals of unclustered beyond the radius of seed
Remaining(seed, unclustered) ==
    LET Beyond(individual) == ~InRadius(seed, individual)
    IN  SelectSeq(unclustered, Beyond)

\* unclustered is the list after pop(0) has taken the seed
RECURSIVE ClusterLocations(_)
ClusterLocations(individuals) ==
    IF individuals = <<>> THEN <<>>
    ELSE LET seed        == Head(individuals)
             unclustered == Tail(individuals)
             Near(individual) == InRadius(seed, individual)
             cluster     == <<seed>> \o SelectSeq(unclustered, Near)
         IN  <<cluster>> \o ClusterLocations(Remaining(seed, unclustered))

(***************************************************************************)
(* _assign_clusters_to_volunteers.  The dict assignments is a function on  *)
(* the volunteer ids; its keys are in the order of the volunteers.         *)
(***************************************************************************)
Keys(volunteers) == [k \in 1..Len(volunteers) |-> volunteers[k].id]

\* a loop over the clusters in the order they were made
SortedBySize_Unsorted(clusters) == clusters

\* sorted(clusters, key=len, reverse=True): a stable sort, so clusters of
\* one size keep their order
RECURSIVE SortedBySize(_)
SortedBySize(clusters) ==
    IF clusters = <<>> THEN <<>>
    ELSE LET n      == Len(clusters)
             sorted == SortedBySize(SubSeq(clusters, 1, n - 1))
             c      == clusters[n]
             Longer(x) == Len(x) >= Len(c)
             Shorter(x) == Len(x) < Len(c)
         IN  SelectSeq(sorted, Longer) \o <<c>> \o SelectSeq(sorted, Shorter)

\* max in place of min: the first key of greatest load
LeastLoaded_Most(keys, assignments) ==
    keys[CHOOSE k \in 1..Len(keys) :
             /\ \A m \in 1..Len(keys) :
                    Len(assignments[keys[k]]) >= Len(assignments[keys[m]])
             /\ \A m \in 1..(k - 1) :
                    Len(assignments[keys[m]]) < Len(assignments[keys[k]])]

\* a choice that ignores the load
LeastLoaded_First(keys, assignments) == keys[1]

\* min(assignments.keys(), key=len of the list): the first key of least load
LeastLoaded(keys, assignments) ==
    keys[CHOOSE k \in 1..Len(keys) :
             /\ \A m \in 1..Len(keys) :
                    Len(assignments[keys[k]]) <= Len(assignments[keys[m]])
             /\ \A m \in 1..(k - 1) :
                    Len(assignments[keys[m]]) > Len(assignments[keys[k]])]

\* assignments[volunteer_id].extend(cluster)
AssignCluster(keys, assignments, cluster) ==
    LET volunteer_id == LeastLoaded(keys, assignments)
    IN  [assignments EXCEPT ![volunteer_id] = @ \o cluster]

RECURSIVE AssignClusters(_, _, _)
AssignClusters(keys, assignments, sorted_clusters) ==
    IF sorted_clusters = <<>> THEN assignments
    ELSE AssignClusters(keys,
                        AssignCluster(keys, assignments, Head(sorted_clusters)),
                        Tail(sorted_clusters))

AssignClustersToVolunteers(volunteers, clusters) ==
    LET keys == Keys(volunteers)
    IN  AssignClusters(keys,
                       [id \in {keys[k] : k \in 1..Len(keys)} |-> <<>>],
                       SortedBySize(clusters))

(***************************************************************************)
(* _calculate_workload_score, _calculate_coverage,                         *)
(* _calculate_balance_score: in thousandths.                               *)
(***************************************************************************)
CalculateWorkloadScore(route) ==
    LET time_score     == Min((route.total_time * 1000) \div 480, 1000)
        distance_score == Min(route.total_distance \div 100, 1000)
    IN  (time_score + distance_score) \div 2

CalculateCoverage(keys, assignments, individuals) ==
    LET assigned_count == Sum([k \in 1..Len(keys) |-> Len(assignments[keys[k]])])
    IN  IF individuals # <<>>
        THEN (assigned_count * 1000) \div Len(individuals) ELSE 0

CalculateBalanceScore(keys, volunteer_routes) ==
    IF keys = <<>> THEN 1000
    ELSE LET workloads == [k \in 1..Len(keys) |->
                              volunteer_routes[keys[k]].workload_score]
             avg == Sum(workloads) \div Len(keys)
             std == Sqrt(Sum([k \in 1..Len(keys) |->
                                 (workloads[k] - avg) * (workloads[k] - avg)])
                         \div Len(keys))
         IN  Max(0, 1000 - std)

(***************************************************************************)
(* optimize_volunteer_routes.  A date is a day number; None is <<>>.       *)
(***************************************************************************)
None == <<>>

\* next(v for v in volunteers if v["id"] == volunteer_id)
VolunteerOf(volunteers, volunteer_id) ==
    volunteers[CHOOSE k \in 1..Len(volunteers) :
                   /\ volunteers[k].id = volunteer_id
                   /\ \A m \in 1..(k - 1) : volunteers[m].id # volunteer_id]

\* the arguments of the call the loop makes for one volunteer
VolunteerCall(volunteer, assigned_individuals) ==
    [start_location |-> <<volunteer.lat, volunteer.lon>>,
     destinations   |-> assigned_individuals,
     constraints    |->
         [max_time       |-> Get(volunteer, "available_hours", 8) * 60,
          transport_mode |-> Get(volunteer, "transport_mode", "driving")]]

\* volunteer_routes[volunteer_id]
VolunteerEntry(assigned_individuals, route) ==
    [route              |-> route,
     individuals_count  |-> Len(assigned_individuals),
     estimated_duration |-> route.total_time,
     workload_score     |-> CalculateWorkloadScore(route)]

VolunteerRoute(volunteer, assigned_individuals) ==
    LET call == VolunteerCall(volunteer, assigned_individuals)
    IN  VolunteerEntry(assigned_individuals,
                       OptimizeMultiStopRoute(call.start_location,
                                              call.destinations,
                                              call.constraints))

\* the dict the function returns
FleetResult(day, keys, individuals, assignments, volunteer_routes) ==
    [date              |-> day,
     volunteer_routes  |-> volunteer_routes,
     total_individuals |-> Len(individuals),
     coverage          |-> CalculateCoverage(keys, assignments, individuals),
     balance_score     |-> CalculateBalanceScore(keys, volunteer_routes)]

\* from assignments on
RoutesOfAssignments(day, volunteers, individuals, assignments) ==
    FleetResult(day, Keys(volunteers), individuals, assignments,
                [id \in DOMAIN assignments |->
                    VolunteerRoute(VolunteerOf(volunteers, id),
                                   assignments[id])])

OptimizeVolunteerRoutes(volunteers, individuals, date, clock) ==
    RoutesOfAssignments(
        IF date # None THEN date[1] ELSE clock, volunteers, individuals,
        AssignClustersToVolunteers(volunteers, ClusterLocations(individuals)))

(***************************************************************************)
(* _get_transport_options.                                                 *)
(***************************************************************************)
Option(mode, distance, accessibility) ==
    [mode          |-> mode,
     time          |-> EstimateTravelTime(distance, mode),
     cost          |-> IF mode = "public_transport"
                       THEN EstimateTravelCost(distance, mode) ELSE 0,
     distance_km   |-> distance,
     accessibility |-> accessibility]

\* public transport offered up to 10 km only
GetTransportOptions_TransitWithinTen(origin, destination, profile) ==
    LET distance == HaversineDistance(origin, destination)
        mobility_issues == Get(profile, "mobility_issues", FALSE)
    IN  (IF distance <= 3000
         THEN <<Option("walking", distance,
                       IF ~mobility_issues THEN "high" ELSE "low")>>
         ELSE <<>>)
        \o (IF distance <= 10000
            THEN <<Option("public_transport", distance, "high")>> ELSE <<>>)
        \o (IF distance <= 10000 /\ ~mobility_issues
            THEN <<Option("cycling", distance, "medium")>>
            ELSE <<>>)

\* cycling offered whatever the profile says
GetTransportOptions_CyclingForAll(origin, destination, profile) ==
    LET distance == HaversineDistance(origin, destination)
    IN  (IF distance <= 3000
         THEN <<Option("walking", distance, "high")>> ELSE <<>>)
        \o <<Option("public_transport", distance, "high")>>
        \o (IF distance <= 10000
            THEN <<Option("cycling", distance, "medium")>> ELSE <<>>)

GetTransportOptions(origin, destination, profile) ==
    LET distance == HaversineDistance(origin, destination)
        mobility_issues == Get(profile, "mobility_issues", FALSE)
    IN  (IF distance <= 3000
         THEN <<Option("walking", distance,
                       IF ~mobility_issues THEN "high" ELSE "low")>>
         ELSE <<>>)
        \o <<Option("public_transport", distance, "high")>>
        \o (IF distance <= 10000 /\ ~mobility_issues
            THEN <<Option("cycling", distance, "medium")>>
            ELSE <<>>)

(***************************************************************************)
(* _calculate_accessibility_score, in hundredths.                          *)
(***************************************************************************)
\* min(opt["cost"] for opt in transport_options)
MinCost(transport_options) ==
    CHOOSE c \in {transport_options[k].cost : k \in 1..Len(transport_options)} :
        \A k \in 1..Len(transport_options) : c <= transport_options[k].cost

HasMode(transport_options, mode) ==
    \E k \in 1..Len(transport_options) : transport_options[k].mode = mode

\* a return without the clamp
ClampScore_Unclamped(score) == score

\* max(0.0, min(1.0, score))
ClampScore(score) == Max(0, Min(100, score))

\* the mobility penalty for every profile with mobility issues
CalculateAccessibilityScore_MobilityAlways(distance, transport_options, resource, profile) ==
    LET penalty == (IF distance > 10000 THEN 30
                    ELSE IF distance > 5000 THEN 15 ELSE 0)
                   + (IF transport_options = <<>> THEN 40
                      ELSE IF Len(transport_options) = 1 THEN 10 ELSE 0)
                   + (IF transport_options = <<>> THEN 0
                      ELSE IF MinCost(transport_options) > 50000 THEN 20
                      ELSE IF MinCost(transport_options) > 20000 THEN 10
                      ELSE 0)
                   + (IF Get(profile, "mobility_issues", FALSE) THEN 30 ELSE 0)
        bonus == (IF Get(resource, "wheelchair_accessible", FALSE)
                  THEN 10 ELSE 0)
                 + (IF Get(resource, "public_transport_nearby", FALSE)
                    THEN 10 ELSE 0)
    IN  Max(0, Min(100, 100 - penalty + bonus))

\* the bonuses added first and clamped, the penalties taken off after
CalculateAccessibilityScore_ClampedEarly(distance, transport_options, resource, profile) ==
    LET bonus == (IF Get(resource, "wheelchair_accessible", FALSE)
                  THEN 10 ELSE 0)
                 + (IF Get(resource, "public_transport_nearby", FALSE)
                    THEN 10 ELSE 0)
        penalty == (IF distance > 10000 THEN 30
                    ELSE IF distance > 5000 THEN 15 ELSE 0)
                   + (IF transport_options = <<>> THEN 40
                      ELSE IF Len(transport_options) = 1 THEN 10 ELSE 0)
                   + (IF transport_options = <<>> THEN 0
                      ELSE IF MinCost(transport_options) > 50000 THEN 20
                      ELSE IF MinCost(transport_options) > 20000 THEN 10
                      ELSE 0)
                   + (IF /\ Get(profile, "mobility_issues", FALSE)
                         /\ ~HasMode(transport_options, "public_transport")
                      THEN 30 ELSE 0)
    IN  Max(0, Min(100, Min(100, 100 + bonus) - penalty))

CalculateAccessibilityScore(distance, transport_options, resource, profile) ==
    LET score0 == 100
        score1 == score0 - (IF distance > 10000 THEN 30
                            ELSE IF distance > 5000 THEN 15 ELSE 0)
        score2 == score1 - (IF transport_options = <<>> THEN 40
                            ELSE IF Len(transport_options) = 1 THEN 10 ELSE 0)
        score3 == score2 - (IF transport_options = <<>> THEN 0
                            ELSE IF MinCost(transport_options) > 50000 THEN 20
                            ELSE IF MinCost(transport_options) > 20000 THEN 10
                            ELSE 0)
        score4 == score3 - (IF /\ Get(profile, "mobility_issues", FALSE)
                               /\ ~HasMode(transport_options, "public_transport")
                            THEN 30 ELSE 0)
        score5 == score4
                  + (IF Get(resource, "wheelchair_accessible", FALSE)
                     THEN 10 ELSE 0)
                  + (IF Get(resource, "public_transport_nearby", FALSE)
                     THEN 10 ELSE 0)
    IN  ClampScore(score5)

(***************************************************************************)
(* _get_accessibility_notes.  A note is a tuple: its text, and for the     *)
(* best option the mode and the cost the text is formatted from.           *)
(***************************************************************************)
\* min(transport_options, key=cost): the first of the cheapest options
Cheapest(transport_options) ==
    transport_options[CHOOSE k \in 1..Len(transport_options) :
        /\ \A m \in 1..Len(transport_options) :
               transport_options[k].cost <= transport_options[m].cost
        /\ \A m \in 1..(k - 1) :
               transport_options[m].cost > transport_options[k].cost]

GetAccessibilityNotes(score, transport_options, profile) ==
    <<(IF score >= 80 THEN <<"Highly accessible location">>
       ELSE IF score >= 60 THEN <<"Moderately accessible">>
       ELSE <<"Limited accessibility - may require assistance">>)>>
    \o (IF transport_options # <<>>
        THEN << <<"Best option", Cheapest(transport_options).mode,
                  Cheapest(transport_options).cost>> >>
        ELSE <<>>)
    \o (IF Get(profile, "mobility_issues", FALSE) /\ score < 70
        THEN <<<<"Consider arranging transportation assistance">>>>
        ELSE <<>>)

(***************************************************************************)
(* score_resource_accessibility.                                           *)
(***************************************************************************)
ScoredResource(individual_location, resource, individual_profile) ==
    LET resource_loc == <<resource.lat, resource.lon>>
        distance == HaversineDistance(individual_location, resource_loc)
        transport_options ==
            GetTransportOptions(individual_location, resource_loc,
                                individual_profile)
        accessibility ==
            CalculateAccessibilityScore(distance, transport_options, resource,
                                        individual_profile)
    IN  [resource_id         |-> resource.id,
         distance_km         |-> distance,
         accessibility_score |-> accessibility,
         transport_options   |-> transport_options,
         estimated_time      |-> IF transport_options # <<>>
                                 THEN transport_options[1].time ELSE None,
         estimated_cost      |-> IF transport_options # <<>>
                                 THEN transport_options[1].cost ELSE None,
         accessibility_notes |->
             GetAccessibilityNotes(accessibility, transport_options,
                                   individual_profile),
         resource_details    |-> resource]

\* the list left in the order of the request
SortedByScore_Unsorted(scored_resources) == scored_resources

\* sort(key=accessibility_score, reverse=True): stable
RECURSIVE SortedByScore(_)
SortedByScore(scored_resources) ==
    IF scored_resources = <<>> THEN <<>>
    ELSE LET n      == Len(scored_resources)
             sorted == SortedByScore(SubSeq(scored_resources, 1, n - 1))
             r      == scored_resources[n]
             Higher(x) == x.accessibility_score >= r.accessibility_score
             Lower(x) == x.accessibility_score < r.accessibility_score
         IN  SelectSeq(sorted, Higher) \o <<r>> \o SelectSeq(sorted, Lower)

ScoreResourceAccessibility(individual_location, resources, individual_profile) ==
    SortedByScore([k \in 1..Len(resources) |->
                      ScoredResource(individual_location, resources[k],
                                     individual_profile)])

(***************************************************************************)
(* suggest_visit_times.  A date is a day number, day 0 a Monday; a time of *)
(* day "HH:MM" is the pair <<HH, MM>>; a time slot is the pair of its two  *)
(* ends; a score is in hundredths.                                         *)
(***************************************************************************)
DayNames ==
    <<"monday", "tuesday", "wednesday", "thursday", "friday", "saturday",
      "sunday">>

DayName(day) == DayNames[(day % 7) + 1]          \* date.strftime("%A").lower()

DefaultHours == [open |-> <<9, 0>>, close |-> <<17, 0>>]

\* not info, or info.get("closed")
IsClosed(info) == info = EmptyDict \/ Get(info, "closed", FALSE)

\* _get_alternative_days: the days of the dict that are open; the dict is
\* taken to list its days in the order of the week
GetAlternativeDays(hours) ==
    LET Open(day) == day \in DOMAIN hours /\ ~IsClosed(hours[day])
    IN  SelectSeq(DayNames, Open)

Suggestion(time_slot, score, wait_time_estimate, reason, recommended) ==
    [time_slot |-> time_slot, score |-> score,
     wait_time_estimate |-> wait_time_estimate, reason |-> reason,
     recommended |-> recommended]

SuggestVisitTimes(location, date, clock) ==
    LET day       == IF date # None THEN date[1] ELSE clock
        hours     == Get(location, "hours", EmptyDict)
        day_name  == DayName(day)
        day_hours == Get(hours, day_name, DefaultHours)
    IN  IF IsClosed(day_hours)
        THEN <<[message          |-> <<"Location is closed on", day_name>>,
                alternative_days |-> GetAlternativeDays(hours)]>>
        ELSE LET open_time  == day_hours.open
                 close_time == day_hours.close
             IN  (IF open_time[1] < 10
                  THEN <<Suggestion(
                            <<open_time,
                              <<Min(open_time[1] + 2, close_time[1]), 0>>>>,
                            90, "Low (5-10 min)",
                            "Early morning - typically less crowded", TRUE)>>
                  ELSE <<>>)
                 \o <<Suggestion(<<<<10, 0>>, <<12, 0>>>>, 70,
                                 "Medium (15-25 min)",
                                 "Mid-morning - moderate crowd", FALSE)>>
                 \o <<Suggestion(<<<<14, 0>>, <<16, 0>>>>, 60,
                                 "Medium-High (20-30 min)",
                                 "Afternoon - busier period", FALSE)>>
                 \o (IF close_time[1] >= 17
                     THEN <<Suggestion(<<<<16, 0>>, close_time>>, 80,
                                       "Low-Medium (10-20 min)",
                                       "Late afternoon - crowd decreasing",
                                       TRUE)>>
                     ELSE <<>>)

(***************************************************************************)
(* _create_coverage_grid.  A cell id "cell_i_j" is the pair <<i, j>>.      *)
(***************************************************************************)
GridStep == 2                            \* grid_size / 111 degrees, in units

\* np.arange(lo, hi, step)
Arange(lo, hi, step) ==
    IF hi <= lo THEN <<>>
    ELSE [k \in 1..((hi - lo + step - 1) \div step) |-> lo + (k - 1) * step]

\* "center": (lat, lon)
CellCenter(lat, lon) == <<lat, lon>>

Cell(i, j, lat, lon) ==
    [id     |-> <<i, j>>,
     center |-> CellCenter(lat, lon),
     bounds |-> [min_lat |-> lat, max_lat |-> lat + GridStep,
                 min_lon |-> lon, max_lon |-> lon + GridStep]]

CreateCoverageGrid(coverage_area) ==
    LET lat_range == Arange(coverage_area.min_lat, coverage_area.max_lat, GridStep)
        lon_range == Arange(coverage_area.min_lon, coverage_area.max_lon, GridStep)
        rows == Len(lat_range)
        cols == Len(lon_range)
    IN  [k \in 1..(rows * cols) |->
            LET i == (k - 1) \div cols
                j == (k - 1) % cols
            IN  Cell(i, j, lat_range[i + 1], lon_range[j + 1])]

(***************************************************************************)
(* _calculate_coverage_map.  A coverage score is in ten-thousandths, so    *)
(* that a metre of distance is one unit of score.                          *)
(***************************************************************************)
Infinity == 2147483647                   \* float("inf")

\* the first service of the list, near or far
NearestService_First(cell_center, service_locations) == service_locations[1]

\* min(service_locations, key=distance from the cell centre): the first
NearestService(cell_center, service_locations) ==
    LET key(k) == HaversineDistance(cell_center,
                                    <<service_locations[k].lat,
                                      service_locations[k].lon>>)
    IN  service_locations[CHOOSE k \in 1..Len(service_locations) :
            /\ \A m \in 1..Len(service_locations) : key(k) <= key(m)
            /\ \A m \in 1..(k - 1) : key(m) > key(k)]

\* max(0.0, 1.0 - (distance / 10))
CoverageScore(distance) == Max(0, 10000 - distance)

\* an area without a service taken as covered
CoverageInfo_NoServiceNoGap(cell, service_locations) ==
    IF service_locations = <<>>
    THEN [coverage_score |-> 10000, nearest_service |-> None, distance |-> 0]
    ELSE [coverage_score  |->
              CoverageScore(HaversineDistance(
                  cell.center,
                  LatLon(NearestService(cell.center, service_locations)))),
          nearest_service |-> NearestService(cell.center, service_locations),
          distance        |->
              HaversineDistance(
                  cell.center,
                  LatLon(NearestService(cell.center, service_locations)))]

CoverageInfo(cell, service_locations) ==
    LET nearest  == IF service_locations # <<>>
                    THEN NearestService(cell.center, service_locations)
                    ELSE None
        distance == IF service_locations # <<>>
                    THEN HaversineDistance(cell.center,
                                           <<nearest.lat, nearest.lon>>)
                    ELSE Infinity
    IN  [coverage_score  |-> CoverageScore(distance),
         nearest_service |-> nearest,
         distance        |-> distance]

CalculateCoverageMap(grid, service_locations) ==
    [id \in {grid[k].id : k \in 1..Len(grid)} |->
        CoverageInfo(grid[CHOOSE k \in 1..Len(grid) : grid[k].id = id],
                     service_locations)]

(***************************************************************************)
(* _calculate_gap_priority, _calculate_overall_coverage,                   *)
(* _generate_gap_recommendations, identify_service_gaps.                   *)
(***************************************************************************)
CalculateGapPriority(cell, coverage_info) ==
    Min(10000, (10000 - coverage_info.coverage_score)
               + (IF Get(cell, "population", 0) > 1000 THEN 2000 ELSE 0))

\* np.mean(scores) * 100: in hundredths of a percent
CalculateOverallCoverage(grid, coverage_map) ==
    IF grid = <<>> THEN 0
    ELSE Sum([k \in 1..Len(grid) |-> coverage_map[grid[k].id].coverage_score])
         \div Len(grid)

Gap(cell, coverage_info) ==
    [location            |-> cell.center,
     coverage_score      |-> coverage_info.coverage_score,
     nearest_service     |-> coverage_info.nearest_service,
     distance_to_nearest |-> coverage_info.distance,
     population_estimate |-> Get(cell, "population", 0),
     priority            |-> CalculateGapPriority(cell, coverage_info)]

\* sort(key=priority, reverse=True): stable
RECURSIVE SortedByPriority(_)
SortedByPriority(gaps) ==
    IF gaps = <<>> THEN <<>>
    ELSE LET n      == Len(gaps)
             sorted == SortedByPriority(SubSeq(gaps, 1, n - 1))
             g      == gaps[n]
             Higher(x) == x.priority >= g.priority
             Lower(x) == x.priority < g.priority
         IN  SelectSeq(sorted, Higher) \o <<g>> \o SelectSeq(sorted, Lower)

GenerateGapRecommendations(gaps) ==
    [k \in 1..Len(gaps) |->
        [location             |-> gaps[k].location,
         priority             |-> gaps[k].priority,
         estimated_impact     |-> gaps[k].population_estimate,
         distance_improvement |-> gaps[k].distance_to_nearest]]

\* an analysis that counts the people of population_density into the cell
\* they are reported at
IdentifyServiceGaps_Populated(service_locations, coverage_area, population_density) ==
    LET cells_       == CreateCoverageGrid(coverage_area)
        People(cell) == Sum([k \in 1..Len(population_density) |->
                               IF <<population_density[k].lat,
                                    population_density[k].lon>> = cell.center
                               THEN population_density[k].density ELSE 0])
        grid         == [k \in 1..Len(cells_) |->
                            cells_[k] @@ [population |-> People(cells_[k])]]
        coverage_map == CalculateCoverageMap(grid, service_locations)
        IsGap(cell)  == coverage_map[cell.id].coverage_score < 5000
        cells        == SelectSeq(grid, IsGap)
        gaps == SortedByPriority([k \in 1..Len(cells) |->
                                     Gap(cells[k], coverage_map[cells[k].id])])
        High(g) == g.priority > 7000
    IN  [total_gaps          |-> Len(gaps),
         high_priority_gaps  |-> SelectSeq(gaps, High),
         coverage_percentage |-> CalculateOverallCoverage(grid, coverage_map),
         recommendations     |-> GenerateGapRecommendations(
                                     SubSeq(gaps, 1, Min(5, Len(gaps)))),
         gap_details         |-> gaps]

IdentifyServiceGaps(service_locations, coverage_area, population_density) ==
    LET grid         == CreateCoverageGrid(coverage_area)
        coverage_map == CalculateCoverageMap(grid, service_locations)
        IsGap(cell)  == coverage_map[cell.id].coverage_score < 5000
        cells        == SelectSeq(grid, IsGap)
        gaps == SortedByPriority([k \in 1..Len(cells) |->
                                     Gap(cells[k], coverage_map[cells[k].id])])
        High(g) == g.priority > 7000
    IN  [total_gaps          |-> Len(gaps),
         high_priority_gaps  |-> SelectSeq(gaps, High),
         coverage_percentage |-> CalculateOverallCoverage(grid, coverage_map),
         recommendations     |-> GenerateGapRecommendations(
                                     SubSeq(gaps, 1, Min(5, Len(gaps)))),
         gap_details         |-> gaps]

(***************************************************************************)
(* RouteOptimizer.__init__, and the module-level instance of route_api.    *)
(***************************************************************************)
InitWeights ==
    [distance |-> 30, time |-> 25, cost |-> 15, safety |-> 15,
     accessibility |-> 15]

InitOptimizer ==
    /\ locations_cache = <<>>
    /\ distance_cache = <<>>
    /\ weights = InitWeights

\* no request served yet
NoCall == [op |-> "none"]

InitServer ==
    /\ now = 0
    /\ last = NoCall
    /\ prev = None

(***************************************************************************)
(* _solve_tsp and _two_opt_improve, statement by statement, in the         *)
(* threads that serve requests on the one optimizer instance.  Every       *)
(* variable of the two functions is a local of the call.                   *)
(***************************************************************************)
Threads == {1, 2}

\* locals kept on the shared optimizer instead of in the call
Own_Shared(t) == 1

\* the activation that holds the locals of thread t's call
Own(t) == t

NoRequest == [start |-> Pt(0, 0), locations |-> <<>>]

IdleFrame ==
    [pc |-> "idle", unvisited |-> <<>>, route |-> <<>>, current |-> Pt(0, 0),
     improved |-> FALSE, iterations |-> 0, i |-> 0, j |-> 0]

InitThreads ==
    /\ request = [t \in Threads |-> NoRequest]
    /\ frame = [t \in Threads |-> IdleFrame]

\* _solve_tsp(start, locations, constraints) is entered
SolveTspCall(t, start, locations) ==
    /\ frame[Own(t)].pc = "idle"
    /\ request' = [request EXCEPT ![t] = [start |-> start, locations |-> locations]]
    /\ frame' = [frame EXCEPT ![Own(t)] =
                    IF locations = <<>>
                    THEN [IdleFrame EXCEPT !.pc = "done"]
                    ELSE [IdleFrame EXCEPT !.pc = "nn", !.unvisited = locations,
                                           !.current = start]]
    /\ UNCHANGED <<now, last, prev, locations_cache, distance_cache, weights>>

\* one turn of: while unvisited
NearestNeighbourStep(t) ==
    LET f == frame[Own(t)]
        nearest == Nearest(f.current, f.unvisited)
    IN  /\ f.pc = "nn"
        /\ f.unvisited # <<>>
        /\ frame' = [frame EXCEPT ![Own(t)] =
                        [f EXCEPT !.route = Append(f.route, nearest),
                                  !.unvisited = Remove(f.unvisited, nearest),
                                  !.current = LatLon(nearest)]]
        /\ UNCHANGED <<now, last, prev, locations_cache, distance_cache, weights, request>>

\* the loop ends; _two_opt_improve(start, route) is entered
TwoOptEnter(t) ==
    LET f == frame[Own(t)]
    IN  /\ f.pc = "nn"
        /\ f.unvisited = <<>>
        /\ frame' = [frame EXCEPT ![Own(t)] =
                        [f EXCEPT !.pc = "while", !.improved = TRUE,
                                  !.iterations = 0]]
        /\ UNCHANGED <<now, last, prev, locations_cache, distance_cache, weights, request>>

\* the test of the while loop holds: a pass begins
TwoOptPassBegin(t) ==
    LET f == frame[Own(t)]
    IN  /\ f.pc = "while"
        /\ Continues(f.improved, f.iterations)
        /\ frame' = [frame EXCEPT ![Own(t)] =
                        [f EXCEPT !.improved = FALSE,
                                  !.iterations = f.iterations + 1,
                                  !.pc = IF HasPair(Len(f.route)) THEN "pair"
                                                                  ELSE "while",
                                  !.i = 0, !.j = 2]]
        /\ UNCHANGED <<now, last, prev, locations_cache, distance_cache, weights, request>>

\* the body of the inner loop for the pair (i, j), and the step to the next
TwoOptPairStep(t) ==
    LET f == frame[Own(t)]
        r == TwoOptPair(request[t].start, f.route, f.i, f.j)
        n == Len(f.route)
    IN  /\ f.pc = "pair"
        /\ frame' = [frame EXCEPT ![Own(t)] =
                        [f EXCEPT !.route = r.route,
                                  !.improved = f.improved \/ r.improved,
                                  !.pc = IF IsLastPair(n, f.i, f.j) THEN "while"
                                                                    ELSE "pair",
                                  !.i = IF IsLastPair(n, f.i, f.j) THEN f.i
                                        ELSE NextPair(n, f.i, f.j)[1],
                                  !.j = IF IsLastPair(n, f.i, f.j) THEN f.j
                                        ELSE NextPair(n, f.i, f.j)[2]]]
        /\ UNCHANGED <<now, last, prev, locations_cache, distance_cache, weights, request>>

\* the test of the while loop fails: return route
TwoOptReturn(t) ==
    LET f == frame[Own(t)]
    IN  /\ f.pc = "while"
        /\ ~Continues(f.improved, f.iterations)
        /\ frame' = [frame EXCEPT ![Own(t)] = [f EXCEPT !.pc = "done"]]
        /\ UNCHANGED <<now, last, prev, locations_cache, distance_cache, weights, request>>

\* the caller takes the route; the activation is gone
SolveTspReturn(t) ==
    /\ frame[Own(t)].pc = "done"
    /\ frame' = [frame EXCEPT ![Own(t)] = IdleFrame]
    /\ request' = [request EXCEPT ![t] = NoRequest]
    /\ UNCHANGED <<now, last, prev, locations_cache, distance_cache, weights>>

SolveTspSteps(t) ==
    \/ NearestNeighbourStep(t)
    \/ TwoOptEnter(t)
    \/ TwoOptPassBegin(t)
    \/ TwoOptPairStep(t)
    \/ TwoOptReturn(t)
    \/ SolveTspReturn(t)

(***************************************************************************)
(* SpecTour: one thread; every start point and every list of at most       *)
(* MaxStops destinations, the lists of the two mirrored stops and the      *)
(* lists of the four stops of the detour.                                  *)
(***************************************************************************)
TourCall ==
    \E start \in StartPoints,
       destinations \in DestLists(MaxStops) \cup Lists(TieCatalog, 2)
                          \cup Lists(DetourCatalog, Len(DetourCatalog)) :
        SolveTspCall(1, start, ToLocations(destinations))

TourStep == SolveTspSteps(1)

InitTour == InitOptimizer /\ InitThreads /\ InitServer

NextTour == TourCall \/ TourStep

SpecTour == InitTour /\ [][NextTour]_vars

(***************************************************************************)
(* SpecConcurrent: two threads, as Flask runs two requests at once on the  *)
(* module-level optimizer; their steps interleave in every order.          *)
(***************************************************************************)
ByIds(ids) == [k \in 1..Len(ids) |-> Catalog[ids[k]]]

ConcurrentCalls ==
    { <<Pt(3, 4), ByIds(<<1, 2, 4, 3>>)>>,
      <<Pt(0, 0), ByIds(<<5, 4, 2>>)>>,
      <<Pt(3, 4), ByIds(<<>>)>> }

ConcurrentCall ==
    \E t \in Threads, call \in ConcurrentCalls :
        SolveTspCall(t, call[1], ToLocations(call[2]))

ConcurrentStep == \E t \in Threads : SolveTspSteps(t)

NextConcurrent == ConcurrentCall \/ ConcurrentStep

SpecConcurrent == InitTour /\ [][NextConcurrent]_vars

(***************************************************************************)
(* route_api.py: the handlers.  A response is the status, the JSON body    *)
(* and, for the properties, the calls the handler made into the engine.    *)
(***************************************************************************)
Rejected(message) ==
    [status |-> 400, body |-> [error |-> message], calls |-> <<>>]

\* except Exception as e
Failed(message) ==
    [status |-> 500, body |-> [error |-> message], calls |-> <<>>]

Ok(body, calls) == [status |-> 200, body |-> body, calls |-> calls]

EngineCall(op, args, result) == [op |-> op, args |-> args, result |-> result]

\* the engine has returned result: {"success": True, key: result}
Answered(op, args, key, result) ==
    Ok([success |-> TRUE] @@ (key :> result), <<EngineCall(op, args, result)>>)

\* a test that lets an empty list of destinations through
RouteInputMissing_StartOnly(start_loc, destinations) == start_loc = None

\* if not start_loc or not destinations
RouteInputMissing(start_loc, destinations) ==
    start_loc = None \/ destinations = <<>>

\* POST /api/v1/routes/optimize
OptimizeRouteHandler(data) ==
    LET start_loc    == Get(data, "start_location", None)
        destinations == Get(data, "destinations", <<>>)
        constraints  == Get(data, "constraints", EmptyDict)
    IN  IF RouteInputMissing(start_loc, destinations)
        THEN Rejected("start_location and destinations are required")
        ELSE LET start == <<start_loc.lat, start_loc.lon>>
             IN  Answered("optimize_multi_stop_route",
                          [start_location |-> start,
                           destinations   |-> destinations,
                           constraints    |-> constraints],
                          "route",
                          OptimizeMultiStopRoute(start, destinations, constraints))

\* the calls optimize_volunteer_routes makes to optimize_multi_stop_route,
\* one for each key of assignments
VolunteerCalls(volunteers, keys, assignments, result) ==
    [k \in 1..Len(keys) |->
        EngineCall("optimize_multi_stop_route",
                   VolunteerCall(VolunteerOf(volunteers, keys[k]),
                                 assignments[keys[k]]),
                   result.volunteer_routes[keys[k]].route)]

\* the engine has returned result: {"success": True, "optimization": result}
FleetAnswered(args, result) ==
    Ok([success |-> TRUE, optimization |-> result],
       <<EngineCall("optimize_volunteer_routes", args, result)>>
       \o VolunteerCalls(args.volunteers, Keys(args.volunteers),
                         AssignClustersToVolunteers(
                             args.volunteers,
                             ClusterLocations(args.individuals)),
                         result))

\* POST /api/v1/routes/volunteer-optimization
OptimizeVolunteerRoutesHandler(data, clock) ==
    LET volunteers  == Get(data, "volunteers", <<>>)
        individuals == Get(data, "individuals", <<>>)
        date        == Get(data, "date", None)
    IN  IF volunteers = <<>> \/ individuals = <<>>
        THEN Rejected("volunteers and individuals are required")
        ELSE FleetAnswered([volunteers |-> volunteers,
                            individuals |-> individuals, date |-> date],
                           OptimizeVolunteerRoutes(volunteers, individuals,
                                                   date, clock))

\* POST /api/v1/routes/accessibility-score
ScoreAccessibilityHandler(data) ==
    LET individual_loc == Get(data, "individual_location", None)
        resources      == Get(data, "resources", <<>>)
        profile        == Get(data, "individual_profile", EmptyDict)
    IN  IF individual_loc = None \/ resources = <<>>
        THEN Rejected("individual_location and resources are required")
        ELSE LET location == <<individual_loc.lat, individual_loc.lon>>
                 scored == ScoreResourceAccessibility(location, resources, profile)
             IN  Ok([success          |-> TRUE,
                     scored_resources |-> scored,
                     total_resources  |-> Len(scored),
                     most_accessible  |-> scored[1]],
                    <<EngineCall("score_resource_accessibility",
                                 [individual_location |-> location,
                                  resources |-> resources,
                                  individual_profile |-> profile],
                                 scored)>>)

\* POST /api/v1/routes/visit-times
SuggestVisitTimesHandler(data, clock) ==
    LET location == Get(data, "location", None)
        date     == Get(data, "date", None)
    IN  IF location = None
        THEN Rejected("location is required")
        ELSE LET suggestions == SuggestVisitTimes(location, date, clock)
             IN  Ok([success       |-> TRUE,
                     location_name |-> Get(location, "name", None),
                     date          |-> IF date # None THEN date[1] ELSE clock,
                     suggestions   |-> suggestions],
                    <<EngineCall("suggest_visit_times",
                                 [location |-> location, date |-> date],
                                 suggestions)>>)

BoxKeys == {"min_lat", "max_lat", "min_lon", "max_lon"}

\* POST /api/v1/routes/service-gaps; a box without one of its keys raises
\* KeyError in _create_coverage_grid
IdentifyServiceGapsHandler(data) ==
    LET service_locations  == Get(data, "service_locations", <<>>)
        coverage_area      == Get(data, "coverage_area", None)
        population_density == Get(data, "population_density", <<>>)
    IN  IF coverage_area = None
        THEN Rejected("coverage_area is required")
        ELSE IF ~(BoxKeys \subseteq DOMAIN coverage_area)
        THEN Failed("KeyError")
        ELSE LET result == IdentifyServiceGaps(service_locations, coverage_area,
                                               population_density)
             IN  Ok([success |-> TRUE, analysis |-> result],
                    <<EngineCall("identify_service_gaps",
                                 [service_locations |-> service_locations,
                                  coverage_area |-> coverage_area,
                                  population_density |-> population_density],
                                 result)>>)

\* POST /api/v1/routes/distance; miles in thousandths
CalculateDistanceHandler(data) ==
    LET origin      == Get(data, "origin", None)
        destination == Get(data, "destination", None)
    IN  IF origin = None \/ destination = None
        THEN Rejected("origin and destination are required")
        ELSE LET args == [loc1 |-> <<origin.lat, origin.lon>>,
                          loc2 |-> <<destination.lat, destination.lon>>]
                 distance == HaversineDistance(args.loc1, args.loc2)
             IN  Ok([success        |-> TRUE,
                     distance_km    |-> distance,
                     distance_miles |-> (distance * 62137) \div 100000],
                    <<EngineCall("_haversine_distance", args, distance)>>)

\* the route table of the blueprint
Handle(op, data, clock) ==
    CASE op = "optimize_route"            -> OptimizeRouteHandler(data)
      [] op = "optimize_volunteer_routes" -> OptimizeVolunteerRoutesHandler(data, clock)
      [] op = "score_accessibility"       -> ScoreAccessibilityHandler(data)
      [] op = "suggest_visit_times"       -> SuggestVisitTimesHandler(data, clock)
      [] op = "identify_service_gaps"     -> IdentifyServiceGapsHandler(data)
      [] op = "calculate_distance"        -> CalculateDistanceHandler(data)

(***************************************************************************)
(* The request bodies the model sends.                                     *)
(***************************************************************************)
Loc(p) == [lat |-> p[1], lon |-> p[2]]

ConstraintSets ==
    { EmptyDict,
      [max_time |-> 480, max_distance |-> 50,
       transport_mode |-> "public_transport"] }

\* destinations the caller has rated: stop 1 at 0.9 (in hundredths), stop 2
\* not rated
RatedCatalog ==
    << [id |-> 1, lat |-> Pt(0, 0)[1], lon |-> Pt(0, 0)[2], wait_time |-> 15,
        accessibility_score |-> 90],
       Dest(2, Pt(1, 1), 20) >>

RouteRequests ==
    { [start_location |-> s, destinations |-> d, constraints |-> c] :
        s \in {None} \cup {Loc(p) : p \in StartPoints},
        d \in DestLists(MaxStops) \cup Lists(RatedCatalog, 2),
        c \in ConstraintSets }

\* the third volunteer leaves available_hours and transport_mode out
VolunteerCatalog ==
    << [id |-> 1, lat |-> Pt(0, 0)[1], lon |-> Pt(0, 0)[2],
        available_hours |-> 8, transport_mode |-> "driving"],
       [id |-> 2, lat |-> Pt(3, 4)[1], lon |-> Pt(3, 4)[2],
        available_hours |-> 6, transport_mode |-> "public_transport"],
       [id |-> 3, lat |-> Pt(2, 2)[1], lon |-> Pt(2, 2)[2]] >>

Dates == {None, <<1>>}

FleetRequests ==
    { [volunteers |-> v, individuals |-> i, date |-> d] :
        v \in Lists(VolunteerCatalog, MaxVolunteers),
        i \in DestLists(MaxStops), d \in Dates }

\* resources 2, 4, 7, 12 and 14 km north of the individual at Pt(0, 0);
\* the last one, also 12 km north, has no flag
Resource(id, p) == [id |-> id, lat |-> p[1], lon |-> p[2]]

ResourceCatalog ==
    << Resource(1, Pt(2, 0)) @@ [wheelchair_accessible |-> TRUE,
                                 public_transport_nearby |-> TRUE],
       Resource(2, Pt(4, 0)),
       Resource(3, Pt(7, 0)) @@ [wheelchair_accessible |-> TRUE],
       Resource(4, Pt(12, 0)) @@ [public_transport_nearby |-> TRUE],
       Resource(5, Pt(14, 0)) @@ [wheelchair_accessible |-> FALSE,
                                  public_transport_nearby |-> FALSE],
       Resource(6, Pt(12, 0)) >>

Profiles ==
    { EmptyDict, [mobility_issues |-> TRUE],
      [mobility_issues |-> FALSE, has_transportation |-> FALSE] }

AccessibilityRequests ==
    { [individual_location |-> l, resources |-> r, individual_profile |-> p] :
        l \in {None, Loc(Pt(0, 0))},
        r \in Lists(ResourceCatalog, MaxResources), p \in Profiles }

\* Monday open early and late, Tuesday closed, Wednesday open from 11 to
\* 15, Thursday an empty entry; the other days are not in the dict
VisitLocations ==
    { [id |-> 1, name |-> "Hope Shelter",
       hours |-> [monday    |-> [open |-> <<8, 0>>, close |-> <<20, 0>>],
                  tuesday   |-> [closed |-> TRUE],
                  wednesday |-> [open |-> <<11, 0>>, close |-> <<15, 0>>],
                  thursday  |-> EmptyDict]],
      [id |-> 2, name |-> "Food Bank"] }

VisitRequests ==
    { [location |-> l, date |-> d] :
        l \in {None} \cup VisitLocations, d \in Dates \cup {<<2>>, <<3>>} }

\* two well-formed boxes, one over the stops and one north of them; a box
\* of no height, a box with its longitudes exchanged, a box without max_lon
Box(min_lat, max_lat, min_east, max_east) ==
    [min_lat |-> min_lat, max_lat |-> max_lat,
     min_lon |-> AreaLon + min_east, max_lon |-> AreaLon + max_east]

CoverageAreas ==
    { None, Box(0, 3, 0, 5), Box(8, 13, 0, 1), Box(3, 3, 0, 5),
      Box(0, 3, 5, 0), [min_lat |-> 0, max_lat |-> 3, min_lon |-> AreaLon] }

PopulationDensities ==
    { <<>>, <<[lat |-> 0, lon |-> AreaLon, density |-> 5000]>> }

GapRequests ==
    { [service_locations |-> s, coverage_area |-> a, population_density |-> p] :
        s \in DestLists(MaxServices), a \in CoverageAreas,
        p \in PopulationDensities }

\* points on the equator, two of them east of longitude 180, and two
\* points on one meridian, one of them north of latitude 90
EquatorPoints == {Pt(0, 0), Pt(0, 5), Pt(4, 6), Pt(0, 7), Pt(4, 8)}

PolarPoints == {<<LatLimit - 2, AreaLon>>, <<LatLimit + 1, AreaLon>>}

DistanceRequests ==
    { [origin |-> o, destination |-> d] :
        o \in {None} \cup {Loc(p) : p \in EquatorPoints},
        d \in {None} \cup {Loc(p) : p \in EquatorPoints} }
    \cup { [origin |-> Loc(o), destination |-> Loc(d)] :
             o \in PolarPoints, d \in PolarPoints }

(***************************************************************************)
(* SpecApi: the server answers a request; the client may send the same     *)
(* request once more, the same day or a later one.  The optimizer keeps    *)
(* nothing from one request to the next, so one request and its repeat     *)
(* are all there is to see; days are counted from the first request.       *)
(***************************************************************************)
Serve(op, data, response) ==
    /\ last' = [op |-> op, data |-> data, response |-> response]
    /\ prev' = None
    /\ UNCHANGED <<now, locations_cache, distance_cache, weights, request, frame>>

ApiOptimizeRoute ==
    last = NoCall /\ \E data \in RouteRequests :
                         Serve("optimize_route", data, OptimizeRouteHandler(data))

ApiOptimizeVolunteerRoutes ==
    last = NoCall /\ \E data \in FleetRequests :
                         Serve("optimize_volunteer_routes", data,
                               OptimizeVolunteerRoutesHandler(data, now))

ApiScoreAccessibility ==
    last = NoCall /\ \E data \in AccessibilityRequests :
                         Serve("score_accessibility", data,
                               ScoreAccessibilityHandler(data))

ApiSuggestVisitTimes ==
    last = NoCall /\ \E data \in VisitRequests :
                         Serve("suggest_visit_times", data,
                               SuggestVisitTimesHandler(data, now))

ApiIdentifyServiceGaps ==
    last = NoCall /\ \E data \in GapRequests :
                         Serve("identify_service_gaps", data,
                               IdentifyServiceGapsHandler(data))

ApiCalculateDistance ==
    last = NoCall /\ \E data \in DistanceRequests :
                         Serve("calculate_distance", data,
                               CalculateDistanceHandler(data))

\* the same request body again
Resend ==
    /\ last # NoCall
    /\ prev = None
    /\ prev' = <<last.response>>
    /\ last' = [last EXCEPT !.response = Handle(last.op, last.data, now)]
    /\ UNCHANGED <<now, locations_cache, distance_cache, weights, request, frame>>

\* midnight
Tick ==
    /\ last # NoCall
    /\ now < MaxClock
    /\ now' = now + 1
    /\ UNCHANGED <<last, prev, locations_cache, distance_cache, weights, request,
                   frame>>

InitApi == InitOptimizer /\ InitThreads /\ InitServer

NextApi ==
    \/ ApiOptimizeRoute
    \/ ApiOptimizeVolunteerRoutes
    \/ ApiScoreAccessibility
    \/ ApiSuggestVisitTimes
    \/ ApiIdentifyServiceGaps
    \/ ApiCalculateDistance
    \/ Resend
    \/ Tick

SpecApi == InitApi /\ [][NextApi]_vars

(***************************************************************************)
(* SpecBalance: one call of _assign_clusters_to_volunteers, one step of    *)
(* its loop at a time.  last is the call: its arguments, the clusters      *)
(* still to assign and the dict assignments.  The arguments are what       *)
(* optimize_volunteer_routes passes for a request the handler lets         *)
(* through: at least one volunteer, and the clusters of at least one       *)
(* individual.                                                             *)
(***************************************************************************)
\* individuals in three groups more than 5 km apart: two near Pt(0, 0), two
\* near Pt(0, 7) and one at Pt(0, 14)
SpreadCatalog ==
    << Dest(1, Pt(0, 0), 15), Dest(2, Pt(1, 1), 20), Dest(6, Pt(0, 7), 0),
       Dest(7, Pt(1, 8), 0),  Dest(8, Pt(0, 14), 5) >>

\* assignments = {v["id"]: [] for v in volunteers}; sorted_clusters = ...
AssignCall ==
    /\ last = NoCall
    /\ \E volunteers \in Lists(VolunteerCatalog, MaxVolunteers) \ {<<>>},
          individuals \in Lists(SpreadCatalog, MaxStops) \ {<<>>} :
          last' = [op              |-> "_assign_clusters_to_volunteers",
                   volunteers      |-> volunteers,
                   clusters        |-> ClusterLocations(individuals),
                   sorted_clusters |-> SortedBySize(ClusterLocations(individuals)),
                   assignments     |->
                       [id \in {volunteers[k].id : k \in 1..Len(volunteers)}
                           |-> <<>>],
                   returned        |-> FALSE]
    /\ UNCHANGED <<now, prev, locations_cache, distance_cache, weights, request,
                   frame>>

\* for cluster in sorted_clusters: one pass of the body
AssignStep ==
    /\ last # NoCall
    /\ last.sorted_clusters # <<>>
    /\ last' = [last EXCEPT
                   !.assignments = AssignCluster(Keys(last.volunteers), @,
                                                 Head(last.sorted_clusters)),
                   !.sorted_clusters = Tail(@)]
    /\ UNCHANGED <<now, prev, locations_cache, distance_cache, weights, request,
                   frame>>

\* return assignments
AssignReturn ==
    /\ last # NoCall
    /\ last.sorted_clusters = <<>>
    /\ ~last.returned
    /\ last' = [last EXCEPT !.returned = TRUE]
    /\ UNCHANGED <<now, prev, locations_cache, distance_cache, weights, request,
                   frame>>

NextBalance == AssignCall \/ AssignStep \/ AssignReturn

SpecBalance == InitApi /\ [][NextBalance]_vars

(***************************************************************************)
(* SpecScore: one call of _calculate_accessibility_score, on arguments of  *)
(* every kind the function provides for: any sublist of the three options, *)
(* the empty one included, at distances on both sides of 5 km and 10 km    *)
(* and of the fares of 2 and 5.                                            *)
(***************************************************************************)
ScoreDistances == {2003, 5000, 5008, 10000, 10015, 14021}

\* the lists of options a caller can pass for a distance
OptionLists(distance) ==
    { (IF walking THEN <<Option("walking", distance, "high")>> ELSE <<>>)
      \o (IF transit THEN <<Option("public_transport", distance, "high")>>
          ELSE <<>>)
      \o (IF cycling THEN <<Option("cycling", distance, "medium")>> ELSE <<>>) :
      walking \in BOOLEAN, transit \in BOOLEAN, cycling \in BOOLEAN }

ResourceFlags ==
    { EmptyDict, [wheelchair_accessible |-> TRUE],
      [public_transport_nearby |-> TRUE],
      [wheelchair_accessible |-> TRUE, public_transport_nearby |-> TRUE] }

ScoreCall ==
    /\ last = NoCall
    /\ \E distance \in ScoreDistances, resource \in ResourceFlags,
          profile \in Profiles :
          \E transport_options \in OptionLists(distance) :
              last' = EngineCall("_calculate_accessibility_score",
                                 [distance          |-> distance,
                                  transport_options |-> transport_options,
                                  resource          |-> resource,
                                  profile           |-> profile],
                                 CalculateAccessibilityScore(
                                     distance, transport_options, resource,
                                     profile))
    /\ UNCHANGED <<now, prev, locations_cache, distance_cache, weights, request,
                   frame>>

NextScore == ScoreCall

SpecScore == InitApi /\ [][NextScore]_vars

(***************************************************************************)
(* SpecBuild: _build_route called on its own, on every start point, every  *)
(* list of at most MaxStops stops in every order, and constraints that     *)
(* the totals stay within and constraints that they exceed.                *)
(***************************************************************************)
BuildConstraints ==
    ConstraintSets \cup {[max_time |-> 30, max_distance |-> 5]}

BuildCall ==
    /\ last = NoCall
    /\ \E start \in StartPoints, destinations \in DestLists(MaxStops),
          constraints \in BuildConstraints :
          last' = EngineCall("_build_route",
                             [start       |-> start,
                              locations   |-> ToLocations(destinations),
                              constraints |-> constraints],
                             BuildRoute(start, ToLocations(destinations),
                                        constraints))
    /\ UNCHANGED <<now, prev, locations_cache, distance_cache, weights, request,
                   frame>>

NextBuild == BuildCall

SpecBuild == InitApi /\ [][NextBuild]_vars

(***************************************************************************)
(* Properties of the tour optimiser.                                       *)
(***************************************************************************)
Range(seq) == {seq[k] : k \in 1..Len(seq)}

Count(seq, x) == Cardinality({k \in 1..Len(seq) : seq[k] = x})

\* s and t hold the same elements, each as many times
IsPermutation(s, t) ==
    /\ Len(s) = Len(t)
    /\ \A x \in Range(s) \cup Range(t) : Count(s, x) = Count(t, x)

\* the path length of an order: start to first stop plus all legs
TotalLength(start, order) == RouteSegmentDistance(start, order)

InTwoOpt(t) == frame[t].pc \in {"while", "pair"}

\* C1: the order _solve_tsp holds is a permutation of the input stops: while
\* it is constructed (visited stops followed by the unvisited ones), after
\* every step of the 2-opt improver, hence after every accepted reversal,
\* and when it is returned.
C1_TourIsPermutation ==
    \A t \in Threads :
        /\ frame[t].pc = "nn" =>
               IsPermutation(frame[t].route \o frame[t].unvisited,
                             request[t].locations)
        /\ (InTwoOpt(t) \/ frame[t].pc = "done") =>
               IsPermutation(frame[t].route, request[t].locations)

\* a call has returned four stops in an order 2-opt changed
C1_Witness ==
    /\ frame[1].pc = "done"
    /\ Len(frame[1].route) = 4
    /\ frame[1].route #
           NearestNeighbour(request[1].start, request[1].locations, <<>>)

\* C2: the order the 2-opt improver holds, and the one it returns, is never
\* longer than the order it was given (the nearest-neighbour order), and
\* the step it takes on a pair (i, j) never yields a longer order than the
\* one it holds.
C2_TwoOptNeverLonger ==
    \A t \in Threads :
        LET start == request[t].start
            given == NearestNeighbour(start, request[t].locations, <<>>)
        IN  /\ (InTwoOpt(t) \/ (frame[t].pc = "done" /\ request[t].locations # <<>>)) =>
                   TotalLength(start, frame[t].route) <= TotalLength(start, given)
            /\ frame[t].pc = "pair" =>
                   TotalLength(start, TwoOptPair(start, frame[t].route,
                                                 frame[t].i, frame[t].j).route)
                       <= TotalLength(start, frame[t].route)

\* the improver has returned an order strictly shorter than the one given
C2_Witness ==
    /\ frame[1].pc = "done"
    /\ request[1].locations # <<>>
    /\ TotalLength(request[1].start, frame[1].route)
           < TotalLength(request[1].start,
                         NearestNeighbour(request[1].start,
                                          request[1].locations, <<>>))

\* how far a call has come: a number that every step of the call raises
Progress(f) ==
    LET n == Len(f.route) + Len(f.unvisited)
        P == n * n + 2
    IN  CASE f.pc = "idle"  -> -(n + 2)
          [] f.pc = "nn"    -> -(Len(f.unvisited) + 1)
          [] f.pc = "while" -> f.iterations * P
          [] f.pc = "pair"  -> (f.iterations - 1) * P + 1 + f.i * n + f.j
          [] f.pc = "done"  -> (max_iterations + 1) * P

\* C3: the 2-opt improver terminates.  It never begins more than
\* max_iterations passes; at the loop test it returns at once when the
\* pass before accepted no reversal or max_iterations passes are done; a
\* pass walks the pairs 0 <= i, i + 2 <= j < n only; and every step of a
\* call raises a number that is bounded, so that no call runs forever.
C3_TwoOptTerminates ==
    /\ [](\A t \in Threads :
            /\ frame[t].iterations <= max_iterations
            /\ Progress(frame[t]) <=
                   (max_iterations + 1) * (Len(frame[t].route) * Len(frame[t].route) + 2)
            /\ frame[t].pc = "pair" =>
                   /\ 0 <= frame[t].i
                   /\ frame[t].i + 2 <= frame[t].j
                   /\ frame[t].j < Len(frame[t].route))
    /\ [][\A t \in Threads :
            (frame[t].pc \in {"nn", "while", "pair"} /\ frame'[t] # frame[t]) =>
                /\ Progress(frame'[t]) > Progress(frame[t])
                /\ (frame[t].pc = "while"
                      /\ (~frame[t].improved
                            \/ frame[t].iterations >= max_iterations))
                       => frame'[t].pc = "done"]_vars

\* the improver has returned after a second pass that accepted nothing
C3_Witness ==
    /\ frame[1].pc = "done"
    /\ frame[1].iterations = 2
    /\ ~frame[1].improved

\* C7: whatever the interleaving, a call returns the order it returns when
\* it runs alone, and the optimizer's fields stay as __init__ set them.
C7_CallsAreIsolated ==
    /\ InitOptimizer
    /\ \A t \in Threads :
           frame[Own(t)].pc = "done" =>
               frame[Own(t)].route = SolveTsp(request[t].start, request[t].locations)

\* one call has returned while the other is in the middle of a 2-opt pass
C7_Witness ==
    /\ frame[1].pc = "done"
    /\ Len(frame[1].route) = 4
    /\ frame[2].pc = "pair"

(***************************************************************************)
(* Properties of the operations, on the request served last.               *)
(***************************************************************************)
Served(op) == last.op = op /\ last.response.status = 200

RECURSIVE Concat(_)
Concat(seqs) == IF seqs = <<>> THEN <<>> ELSE Head(seqs) \o Concat(Tail(seqs))

\* the calls of the response to optimize_multi_stop_route
TourCalls(response) ==
    LET IsTourCall(call) == call.op = "optimize_multi_stop_route"
    IN  SelectSeq(response.calls, IsTourCall)

\* the list of stops each volunteer's route was computed from
AssignedLists ==
    LET calls == TourCalls(last.response)
    IN  [k \in 1..Len(calls) |-> calls[k].args.destinations]

\* C4: when optimize_volunteer_routes has served a request with at least
\* one volunteer, the lists assigned to the volunteers hold every individual
\* of the request exactly once and nothing else, and their lengths add up
\* to the number of individuals.
C4_EveryStopAssignedOnce ==
    Served("optimize_volunteer_routes") =>
        LET individuals == last.data.individuals
            lists       == AssignedLists
        IN  /\ Len(lists) = Len(last.data.volunteers)
            /\ Sum([k \in 1..Len(lists) |-> Len(lists[k])]) = Len(individuals)
            /\ IsPermutation(Concat(lists), individuals)
            /\ Sum([k \in 1..Len(lists) |->
                       last.response.body.optimization.volunteer_routes[
                           last.data.volunteers[k].id].individuals_count])
               = Len(individuals)

\* two volunteers share four individuals of two clusters
C4_Witness ==
    /\ Served("optimize_volunteer_routes")
    /\ Len(last.data.individuals) = 4
    /\ Len(ClusterLocations(last.data.individuals)) = 2
    /\ Len(AssignedLists) = 2
    /\ \A k \in 1..2 : Len(AssignedLists[k]) = 2

\* C5: every accessibility score score_resource_accessibility returns is in
\* [0, 1] (0..100 hundredths), and every coverage score of a cell of the
\* grid of identify_service_gaps, also when there is no service at all and
\* the distance is infinite, is in [0, 1] (0..10000 ten-thousandths).
C5_ScoresInUnitInterval ==
    /\ Served("score_accessibility") =>
           \A k \in 1..Len(last.response.body.scored_resources) :
               last.response.body.scored_resources[k].accessibility_score
                   \in 0..100
    /\ Served("identify_service_gaps") =>
           LET grid == CreateCoverageGrid(last.data.coverage_area)
               coverage_map ==
                   CalculateCoverageMap(grid, last.data.service_locations)
               gaps == last.response.body.analysis.gap_details
           IN  /\ \A k \in 1..Len(grid) :
                      coverage_map[grid[k].id].coverage_score \in 0..10000
               /\ \A k \in 1..Len(gaps) : gaps[k].coverage_score \in 0..10000

\* a grid of six cells and no service: every cell is infinitely far from a
\* service and has coverage 0
C5_Witness ==
    /\ Served("identify_service_gaps")
    /\ last.data.service_locations = <<>>
    /\ last.response.body.analysis.total_gaps = 6
    /\ \A k \in 1..6 :
           /\ last.response.body.analysis.gap_details[k].distance_to_nearest
                  = Infinity
           /\ last.response.body.analysis.gap_details[k].coverage_score = 0

\* C6: a request sent again gets the engine to return what it returned
\* before: the same calls with the same arguments have the same results.
C6_SameArgumentsSameResult ==
    prev # None => last.response.calls = prev[1].calls

InDomain(loc) ==
    /\ loc.lat >= -LatLimit /\ loc.lat <= LatLimit
    /\ loc.lon >= -LonLimit /\ loc.lon <= LonLimit

\* C9: a distance request with a point outside the coordinate domain gets
\* an error and no distance.
C9_OutOfDomainIsAnError ==
    /\ last.op = "calculate_distance"
    /\ last.data.origin # None /\ last.data.destination # None
    /\ ~InDomain(last.data.origin) \/ ~InDomain(last.data.destination)
    => /\ last.response.status # 200
       /\ last.response.calls = <<>>

\* min_lat < max_lat and min_lon < max_lon
WellFormed(box) ==
    /\ BoxKeys \subseteq DOMAIN box
    /\ box.min_lat < box.max_lat
    /\ box.min_lon < box.max_lon

\* C10: a coverage request whose box is missing or not well formed gets an
\* error; no grid is built, no coverage computed, no analysis returned.
C10_BadBoxIsRejected ==
    /\ last.op = "identify_service_gaps"
    /\ last.data.coverage_area = None \/ ~WellFormed(last.data.coverage_area)
    => /\ last.response.status # 200
       /\ last.response.calls = <<>>

(***************************************************************************)
(* Properties of the clusterer and the load balancer.                      *)
(***************************************************************************)
\* the members of the clusters before the k-th
ClusteredBefore(clusters, k) ==
    UNION {{clusters[m][n] : n \in 1..Len(clusters[m])} : m \in 1..(k - 1)}

\* the individuals still unclustered when the k-th cluster is made, in
\* input order
StillUnclustered(individuals, clusters, k) ==
    LET Free(x) == x \notin ClusteredBefore(clusters, k)
    IN  SelectSeq(individuals, Free)

\* the distance in metres between two dicts with lat and lon
Apart(a, b) == HaversineDistance(<<a.lat, a.lon>>, <<b.lat, b.lon>>)

\* C11: the clusters of a served fleet request partition the individuals;
\* the k-th cluster is its seed, the first individual in input order that
\* no earlier cluster holds, followed by exactly the still unclustered
\* individuals at most 5 km (5000 m) from the seed, whatever their distance
\* to the other members.
C11_ClusterIsSeedAndItsNeighbours ==
    Served("optimize_volunteer_routes") =>
        LET individuals == last.data.individuals
            clusters    == ClusterLocations(individuals)
        IN  /\ IsPermutation(Concat(clusters), individuals)
            /\ \A k \in 1..Len(clusters) :
                   LET free == StillUnclustered(individuals, clusters, k)
                       seed == Head(free)
                       Near(x) == Apart(seed, x) <= 5000
                   IN  /\ free # <<>>
                       /\ clusters[k] = <<seed>> \o SelectSeq(Tail(free), Near)

\* a stop within 5 km of an absorbed member and more than 5 km from the
\* seed ends up in a later cluster
C11_Witness ==
    /\ Served("optimize_volunteer_routes")
    /\ LET clusters == ClusterLocations(last.data.individuals)
       IN  /\ Len(clusters) >= 2
           /\ Len(clusters[1]) >= 2
           /\ Apart(clusters[1][2], clusters[2][1]) <= 5000
           /\ Apart(clusters[1][1], clusters[2][1]) > 5000

\* the sizes of the clusters of a list, as a bag
SizeBag(clusters) ==
    [n \in {Len(clusters[k]) : k \in 1..Len(clusters)} |->
        Cardinality({k \in 1..Len(clusters) : Len(clusters[k]) = n})]

\* C12: in every step of the loop of _assign_clusters_to_volunteers the
\* cluster taken is at least as large as every cluster still to come, it
\* is appended whole to the list of exactly one volunteer, the other lists
\* stay as they are, and no volunteer holds fewer stops than that one did
\* before the step; the loop starts from empty lists over the clusters it
\* was given, and what it returns is what the function computes.
C12_LargestClusterToLeastLoaded ==
    [][ /\ (last = NoCall /\ last' # NoCall) =>
              /\ \A id \in DOMAIN last'.assignments :
                     last'.assignments[id] = <<>>
              /\ Len(last'.sorted_clusters) = Len(last'.clusters)
              /\ {last'.sorted_clusters[k] : k \in 1..Len(last'.clusters)}
                 = {last'.clusters[k] : k \in 1..Len(last'.clusters)}
              /\ SizeBag(last'.sorted_clusters) = SizeBag(last'.clusters)
        /\ (last # NoCall /\ last'.sorted_clusters # last.sorted_clusters) =>
              LET cluster == Head(last.sorted_clusters)
                  ids     == DOMAIN last.assignments
              IN  /\ last'.sorted_clusters = Tail(last.sorted_clusters)
                  /\ \A k \in 1..Len(last'.sorted_clusters) :
                         Len(last'.sorted_clusters[k]) <= Len(cluster)
                  /\ \E id \in ids :
                         /\ last'.assignments[id]
                            = last.assignments[id] \o cluster
                         /\ \A other \in ids \ {id} :
                                last'.assignments[other]
                                = last.assignments[other]
                         /\ \A other \in ids :
                                Len(last.assignments[id])
                                <= Len(last.assignments[other])
        /\ (last # NoCall /\ last'.returned /\ ~last.returned) =>
              last'.assignments
              = AssignClustersToVolunteers(last.volunteers, last.clusters)
      ]_vars

\* the call has returned after three steps: clusters of sizes 2, 1 and 1
\* went to two volunteers, the cluster of two first and alone to one
\* volunteer, the two single stops to the other
C12_Witness ==
    /\ last # NoCall
    /\ last.op = "_assign_clusters_to_volunteers"
    /\ last.returned
    /\ Len(last.volunteers) = 2
    /\ Len(last.clusters) = 3
    /\ Len(last.clusters[1]) = 1
    /\ Len(last.clusters[2]) = 2
    /\ last.assignments[last.volunteers[1].id] = last.clusters[2]
    /\ last.assignments[last.volunteers[2].id]
       = last.clusters[1] \o last.clusters[3]

\* the stops a list holds
Members(list) == {list[k] : k \in 1..Len(list)}

\* the ways to split four stops into two geographic pairs: the two stops
\* of a pair at most 5 km apart, stops of different pairs farther apart
GeographicPairs(individuals) ==
    { pairs \in { {{individuals[1], partner},
                   Members(individuals) \ {individuals[1], partner}} :
                 partner \in Members(individuals) \ {individuals[1]} } :
        /\ \A p \in pairs :
               /\ Cardinality(p) = 2
               /\ \A a, b \in p : Apart(a, b) <= 5000
        /\ \A p, q \in pairs :
               p # q => \A a \in p, b \in q : Apart(a, b) > 5000 }

\* C13: optimize_volunteer_routes, served for two volunteers and four
\* individuals that form two geographic pairs, makes two clusters of two,
\* the two pairs, and hands each volunteer one whole pair: two stops each.
C13_TwoPairsTwoEach ==
    ( /\ Served("optimize_volunteer_routes")
      /\ Len(last.data.volunteers) = 2
      /\ Len(last.data.individuals) = 4
      /\ GeographicPairs(last.data.individuals) # {} ) =>
        LET clusters == ClusterLocations(last.data.individuals)
            routes   == last.response.body.optimization.volunteer_routes
        IN  /\ Len(clusters) = 2
            /\ \A k \in 1..2 : Len(clusters[k]) = 2
            /\ {Members(clusters[1]), Members(clusters[2])}
               \in GeographicPairs(last.data.individuals)
            /\ Len(AssignedLists) = 2
            /\ \A k \in 1..2 : Len(AssignedLists[k]) = 2
            /\ {Members(AssignedLists[1]), Members(AssignedLists[2])}
               \in GeographicPairs(last.data.individuals)
            /\ \A k \in 1..2 :
                   routes[last.data.volunteers[k].id].individuals_count = 2

\* the pairs come interleaved in the request: stops 1 and 3 are one pair,
\* stops 4 and 5 the other
C13_Witness ==
    /\ Served("optimize_volunteer_routes")
    /\ Len(last.data.volunteers) = 2
    /\ Len(last.data.individuals) = 4
    /\ GeographicPairs(last.data.individuals) # {}
    /\ Apart(last.data.individuals[1], last.data.individuals[2]) > 5000
    /\ Len(AssignedLists[1]) = 2
    /\ Len(AssignedLists[2]) = 2

(***************************************************************************)
(* Properties of the accessibility scoring.                                *)
(***************************************************************************)
\* profile.get("mobility_issues") of the request served last
Impaired == Get(last.data.individual_profile, "mobility_issues", FALSE)

\* the modes of the options of one scored resource, in order
Modes(scored) ==
    [k \in 1..Len(scored.transport_options) |-> scored.transport_options[k].mode]

\* C14: for every resource score_resource_accessibility has scored, at
\* distance d from the individual, the modes offered are: walking if and
\* only if d <= 3 km, public transport always, cycling if and only if
\* d <= 10 km and the profile has no mobility issues; each once, and no
\* other mode.
C14_TransportOptionsByDistanceAndProfile ==
    Served("score_accessibility") =>
        \A k \in 1..Len(last.response.body.scored_resources) :
            LET scored == last.response.body.scored_resources[k]
                d      == Apart(last.data.individual_location,
                                scored.resource_details)
                modes  == Modes(scored)
            IN  /\ Members(modes) \subseteq {"walking", "public_transport", "cycling"}
                /\ Cardinality(Members(modes)) = Len(modes)
                /\ "walking" \in Members(modes) <=> d <= 3000
                /\ "public_transport" \in Members(modes)
                /\ "cycling" \in Members(modes) <=> (d <= 10000 /\ ~Impaired)

\* an individual with mobility issues: a resource 2 km away is offered
\* walking and public transport, one 7 km away public transport alone
C14_Witness ==
    /\ Served("score_accessibility")
    /\ Impaired
    /\ Len(last.response.body.scored_resources) = 2
    /\ \E k, m \in 1..2 :
           /\ last.response.body.scored_resources[k].distance_km <= 3000
           /\ Modes(last.response.body.scored_resources[k])
              = <<"walking", "public_transport">>
           /\ last.response.body.scored_resources[m].distance_km \in 5001..10000
           /\ Modes(last.response.body.scored_resources[m])
              = <<"public_transport">>

\* the adjustments the claim lists, in hundredths; costs are in hundredths
\* of a cent
Adjustments(distance, options, resource, impaired) ==
    LET costs == {options[k].cost : k \in 1..Len(options)}
        modes == {options[k].mode : k \in 1..Len(options)}
    IN  << IF distance > 10000 THEN -30 ELSE IF distance > 5000 THEN -15 ELSE 0,
           IF Len(options) = 0 THEN -40 ELSE IF Len(options) = 1 THEN -10 ELSE 0,
           IF options = <<>> THEN 0
           ELSE IF \A c \in costs : c > 50000 THEN -20
           ELSE IF \A c \in costs : c > 20000 THEN -10 ELSE 0,
           IF impaired /\ "public_transport" \notin modes THEN -30 ELSE 0,
           IF Get(resource, "wheelchair_accessible", FALSE) THEN 10 ELSE 0,
           IF Get(resource, "public_transport_nearby", FALSE) THEN 10 ELSE 0 >>

\* the adjustments of the call of _calculate_accessibility_score in last
CallAdjustments ==
    Adjustments(last.args.distance, last.args.transport_options,
                last.args.resource,
                Get(last.args.profile, "mobility_issues", FALSE))

\* C15: the score _calculate_accessibility_score returns is 1.0 plus the
\* sum of the adjustments (distance, number of options, cheapest cost,
\* mobility, wheelchair access, public transport nearby), brought into
\* [0, 1] once, after the sum.
C15_ScoreIsClampedSum ==
    last # NoCall =>
        LET raw == 100 + Sum(CallAdjustments)
        IN  last.result = (IF raw > 100 THEN 100 ELSE IF raw < 0 THEN 0 ELSE raw)

\* a bonus makes up for part of the penalties of a call whose sum, without
\* the bonus, is below 1.0: 1.0 - 0.15 - 0.4 - 0.3 + 0.1 + 0.1 = 0.35
C15_Witness ==
    /\ last # NoCall
    /\ CallAdjustments = <<-15, -40, 0, -30, 10, 10>>
    /\ last.result = 35

\* the adjustments of one scored resource of the response served last
ScoredAdjustments(scored) ==
    Adjustments(Apart(last.data.individual_location, scored.resource_details),
                scored.transport_options, scored.resource_details, Impaired)

\* a resource 12 km from the individual with neither flag set
TwelveKmNoFlags(scored) ==
    /\ Apart(last.data.individual_location, scored.resource_details)
           \in 11500..12500
    /\ ~Get(scored.resource_details, "wheelchair_accessible", FALSE)
    /\ ~Get(scored.resource_details, "public_transport_nearby", FALSE)

\* C16: for an individual with mobility issues and a resource 12 km away
\* with neither flag, score_resource_accessibility applies the distance
\* penalty (at least 0.3) and the mobility penalty (at least 0.3), and the
\* score is strictly below 0.5.
C16_DistanceAndMobilityPenalties ==
    (Served("score_accessibility") /\ Impaired) =>
        \A k \in 1..Len(last.response.body.scored_resources) :
            LET scored == last.response.body.scored_resources[k]
            IN  TwelveKmNoFlags(scored) =>
                    /\ ScoredAdjustments(scored)[1] <= -30
                    /\ ScoredAdjustments(scored)[4] <= -30
                    /\ scored.accessibility_score < 50

\* C16, amended: for an individual with mobility issues and a resource
\* 12 km away with neither flag, score_resource_accessibility applies the
\* distance penalty of 0.3 and no mobility penalty, public transport being
\* among the options; public transport is the one option (penalty 0.1)
\* and costs more than 2 and not more than 5 (penalty 0.1), and the score
\* is 0.5.
C16_DistancePenaltyButNoMobilityPenalty ==
    (Served("score_accessibility") /\ Impaired) =>
        \A k \in 1..Len(last.response.body.scored_resources) :
            LET scored == last.response.body.scored_resources[k]
            IN  TwelveKmNoFlags(scored) =>
                    /\ Modes(scored) = <<"public_transport">>
                    /\ ScoredAdjustments(scored) = <<-30, -10, -10, 0, 0, 0>>
                    /\ scored.accessibility_score = 50

\* the resource 12 km away without flags, scored for an individual with
\* mobility issues
C16_Witness ==
    /\ Served("score_accessibility")
    /\ Impaired
    /\ \E k \in 1..Len(last.response.body.scored_resources) :
           /\ TwelveKmNoFlags(last.response.body.scored_resources[k])
           /\ last.response.body.scored_resources[k].accessibility_score = 50

\* C17: score_resource_accessibility returns one entry for each resource
\* of the request and no other, in an order in which the accessibility
\* scores never increase; the first entry, which the response reports as
\* most accessible, has the highest score.
C17_RankedByScore ==
    Served("score_accessibility") =>
        LET scored  == last.response.body.scored_resources
            details == [k \in 1..Len(scored) |-> scored[k].resource_details]
        IN  /\ Len(scored) = Len(last.data.resources)
            /\ last.response.body.total_resources = Len(last.data.resources)
            /\ IsPermutation(details, last.data.resources)
            /\ \A k \in 1..(Len(scored) - 1) :
                   scored[k].accessibility_score
                   >= scored[k + 1].accessibility_score
            /\ last.response.body.most_accessible = scored[1]
            /\ \A k \in 1..Len(scored) :
                   last.response.body.most_accessible.accessibility_score
                   >= scored[k].accessibility_score

\* the request lists the less accessible resource first, the response last
C17_Witness ==
    /\ Served("score_accessibility")
    /\ Len(last.data.resources) = 2
    /\ last.response.body.scored_resources[1].resource_details
       = last.data.resources[2]
    /\ last.response.body.scored_resources[2].resource_details
       = last.data.resources[1]
    /\ last.response.body.scored_resources[1].accessibility_score
       > last.response.body.scored_resources[2].accessibility_score

(***************************************************************************)
(* Properties of the coverage analysis.                                    *)
(***************************************************************************)
\* the grid of the request served last
ServedGrid == CreateCoverageGrid(last.data.coverage_area)

\* the distances in metres from a point to the services of the request
ServiceDistances(point) ==
    {HaversineDistance(point, <<last.data.service_locations[k].lat,
                                last.data.service_locations[k].lon>>) :
        k \in 1..Len(last.data.service_locations)}

\* the least of them; infinite when there is no service
MinServiceDistance(point) ==
    IF ServiceDistances(point) = {} THEN Infinity
    ELSE CHOOSE d \in ServiceDistances(point) :
             \A e \in ServiceDistances(point) : d <= e

\* the entries of the gap list for a cell
GapsAt(cell) ==
    LET gaps == last.response.body.analysis.gap_details
    IN  {k \in 1..Len(gaps) : gaps[k].location = cell.center}

\* C18: in identify_service_gaps the coverage score of a cell is
\* max(0, 1 - d/10), d the least distance in km from the cell to a service
\* (in ten-thousandths: max(0, 10000 - d), d in metres); the cell is in the
\* gap list, once and with that score and distance, if and only if the
\* score is below 0.5, that is d is above 5 km.
C18_GapIffScoreBelowHalf ==
    Served("identify_service_gaps") =>
        \A n \in 1..Len(ServedGrid) :
            LET cell  == ServedGrid[n]
                d     == MinServiceDistance(cell.center)
                score == IF d >= 10000 THEN 0 ELSE 10000 - d
                gaps  == last.response.body.analysis.gap_details
            IN  /\ (GapsAt(cell) # {}) <=> (score < 5000)
                /\ (score < 5000) <=> (d > 5000)
                /\ Cardinality(GapsAt(cell)) <= 1
                /\ \A k \in GapsAt(cell) :
                       /\ gaps[k].coverage_score = score
                       /\ gaps[k].distance_to_nearest = d

\* two services, and a grid with a cell nearer to the second service than
\* to the first that is no gap, and a cell that is one
C18_Witness ==
    /\ Served("identify_service_gaps")
    /\ Len(last.data.service_locations) = 2
    /\ \E n, m \in 1..Len(ServedGrid) :
           /\ GapsAt(ServedGrid[n]) = {}
           /\ MinServiceDistance(ServedGrid[n].center) \in 1..5000
           /\ HaversineDistance(ServedGrid[n].center,
                                <<last.data.service_locations[1].lat,
                                  last.data.service_locations[1].lon>>) > 5000
           /\ GapsAt(ServedGrid[m]) # {}
           /\ MinServiceDistance(ServedGrid[m].center) \in 5001..9999

\* C19: identify_service_gaps served with no service location gives every
\* cell of the grid the coverage score 0 and lists it as a gap: as many
\* gaps as cells, and an overall coverage of 0 percent.
C19_NoServiceAllGaps ==
    (Served("identify_service_gaps") /\ last.data.service_locations = <<>>) =>
        LET analysis == last.response.body.analysis
        IN  /\ analysis.total_gaps = Len(ServedGrid)
            /\ Len(analysis.gap_details) = Len(ServedGrid)
            /\ \A n \in 1..Len(ServedGrid) :
                   /\ Cardinality(GapsAt(ServedGrid[n])) = 1
                   /\ \A k \in GapsAt(ServedGrid[n]) :
                          analysis.gap_details[k].coverage_score = 0
            /\ analysis.coverage_percentage = 0

\* no service and the box north of the stops, of three cells
C19_Witness ==
    /\ Served("identify_service_gaps")
    /\ last.data.service_locations = <<>>
    /\ last.data.coverage_area = Box(8, 13, 0, 1)
    /\ Len(ServedGrid) = 3
    /\ last.response.body.analysis.total_gaps = 3
    /\ last.response.body.analysis.coverage_percentage = 0

\* the first corners of the cells along one axis: from the minimum of the
\* box in steps of 2/111 degree, as long as they are below the maximum
Corners(lo, hi) == {lo + GridStep * n : n \in 0..(hi - lo)} \cap lo..(hi - 1)

\* one cell for each pair of corners, cell_i_j at the i-th and j-th, each
\* a step wide and high; no two of them overlap
GridTilesBox ==
    LET area == last.data.coverage_area
        grid == ServedGrid
    IN  /\ Len(grid) = Cardinality(Corners(area.min_lat, area.max_lat))
                       * Cardinality(Corners(area.min_lon, area.max_lon))
        /\ \A n \in 1..Len(grid) :
               /\ grid[n].bounds.min_lat
                  = area.min_lat + GridStep * grid[n].id[1]
               /\ grid[n].bounds.min_lon
                  = area.min_lon + GridStep * grid[n].id[2]
               /\ grid[n].bounds.min_lat \in Corners(area.min_lat, area.max_lat)
               /\ grid[n].bounds.min_lon \in Corners(area.min_lon, area.max_lon)
               /\ grid[n].bounds.max_lat = grid[n].bounds.min_lat + GridStep
               /\ grid[n].bounds.max_lon = grid[n].bounds.min_lon + GridStep
        /\ \A n, m \in 1..Len(grid) :
               n # m =>
                   \/ grid[n].bounds.max_lat <= grid[m].bounds.min_lat
                   \/ grid[m].bounds.max_lat <= grid[n].bounds.min_lat
                   \/ grid[n].bounds.max_lon <= grid[m].bounds.min_lon
                   \/ grid[m].bounds.max_lon <= grid[n].bounds.min_lon

\* the centre of every cell is its lower-left corner plus half a step
\* (1/111 degree) on both axes, and the distance to the nearest service
\* of a gap is measured from there
CentresAreMiddles ==
    /\ \A n \in 1..Len(ServedGrid) :
           ServedGrid[n].center
           = <<ServedGrid[n].bounds.min_lat + GridStep \div 2,
               ServedGrid[n].bounds.min_lon + GridStep \div 2>>
    /\ \A k \in 1..Len(last.response.body.analysis.gap_details) :
           \E n \in 1..Len(ServedGrid) :
               /\ last.response.body.analysis.gap_details[k].location
                  = <<ServedGrid[n].bounds.min_lat + GridStep \div 2,
                      ServedGrid[n].bounds.min_lon + GridStep \div 2>>
               /\ last.response.body.analysis.gap_details[k].distance_to_nearest
                  = MinServiceDistance(
                        <<ServedGrid[n].bounds.min_lat + GridStep \div 2,
                          ServedGrid[n].bounds.min_lon + GridStep \div 2>>)

\* C20: the grid of identify_service_gaps has one cell per step of 2/111
\* degree in latitude and in longitude, from the minimum of the box and
\* stopping before its maximum; the cells do not overlap; and the centre
\* of each cell, from which the distance to its nearest service is
\* measured, is its lower-left corner plus half a step on both axes.
C20_GridCellsAndCentres ==
    Served("identify_service_gaps") => (GridTilesBox /\ CentresAreMiddles)

(***************************************************************************)
(* More properties of the tour optimiser.                                  *)
(***************************************************************************)
\* the distance in metres from a point to a Location
Away(point, loc) == HaversineDistance(point, <<loc.lat, loc.lon>>)

\* the stop a turn of the construction loop has just appended is nearest
\* to the current position among the unvisited stops
AppendsNearest ==
    (frame[1].pc = "nn" /\ frame[1].unvisited # <<>> /\ frame'[1] # frame[1]) =>
        LET f       == frame[1]
            nearest == frame'[1].route[Len(frame'[1].route)]
        IN  /\ Len(frame'[1].route) = Len(f.route) + 1
            /\ nearest \in Range(f.unvisited)
            /\ \A other \in Range(f.unvisited) :
                   Away(f.current, nearest) <= Away(f.current, other)

\* and of the unvisited stops as near as it, it has the lowest id
AppendsLowestId ==
    (frame[1].pc = "nn" /\ frame[1].unvisited # <<>> /\ frame'[1] # frame[1]) =>
        LET f       == frame[1]
            nearest == frame'[1].route[Len(frame'[1].route)]
        IN  \A other \in Range(f.unvisited) :
                Away(f.current, other) = Away(f.current, nearest)
                    => nearest.id <= other.id

\* C21: every turn of the nearest-neighbour loop appends an unvisited stop
\* at least distance from the current position, and of several stops at
\* that distance the one with the lowest id, wherever they stand in the
\* list.
C21_NearestThenLowestId == [][AppendsNearest /\ AppendsLowestId]_vars

\* of the unvisited stops as near as it, it stands first in the list
AppendsFirstListed ==
    (frame[1].pc = "nn" /\ frame[1].unvisited # <<>> /\ frame'[1] # frame[1]) =>
        LET f       == frame[1]
            nearest == frame'[1].route[Len(frame'[1].route)]
        IN  \E k \in 1..Len(f.unvisited) :
                /\ f.unvisited[k] = nearest
                /\ \A m \in 1..(k - 1) :
                       Away(f.current, f.unvisited[m]) > Away(f.current, nearest)
                /\ frame'[1].unvisited = Slice(f.unvisited, 0, k - 1)
                                             \o Slice(f.unvisited, k, Len(f.unvisited))

\* C21 (amended): every turn of the nearest-neighbour loop appends an
\* unvisited stop at least distance from the current position, and of
\* several stops at that distance the one that stands first in the list of
\* the stops still unvisited, which keeps the order of the input list.
C21_NearestThenFirstListed == [][AppendsNearest /\ AppendsFirstListed]_vars

\* stop 7 was listed before stop 6, both equally far from the start, and
\* stop 7 was appended first
C21_Witness ==
    /\ request[1].start = Pt(0, 0)
    /\ request[1].locations = ToLocations(<<TieCatalog[2], TieCatalog[1]>>)
    /\ Away(request[1].start, request[1].locations[1])
           = Away(request[1].start, request[1].locations[2])
    /\ frame[1].route # <<>>
    /\ frame[1].route[1].id = 7
    /\ frame[1].unvisited = <<request[1].locations[2]>>

(***************************************************************************)
(* Properties of the route assembler.                                      *)
(***************************************************************************)
Built == last # NoCall /\ last.op = "_build_route"

\* the totals of the route exceed both limits of its constraints
OverLimits(args, route) ==
    /\ "max_time" \in DOMAIN args.constraints
    /\ route.total_time > args.constraints.max_time
    /\ route.total_distance > 1000 * args.constraints.max_distance

\* C22: the assembled route holds all the stops it was given, in the order
\* given, and one waypoint for the start followed by one for each stop,
\* whatever max_time and max_distance are and whether or not the totals
\* exceed them.
C22_AssemblerKeepsEveryStop ==
    Built =>
        LET locations == last.args.locations
            route     == last.result
        IN  /\ route.locations = locations
            /\ Len(route.waypoints) = Len(locations) + 1
            /\ route.waypoints[1] = last.args.start
            /\ \A k \in 1..Len(locations) :
                   route.waypoints[k + 1] = LatLon(locations[k])

\* a route of two stops or more that exceeds both of its limits
C22_Witness ==
    /\ Built
    /\ Len(last.args.locations) >= 2
    /\ OverLimits(last.args, last.result)
    /\ Len(last.result.locations) = Len(last.args.locations)

\* the rating the caller supplied with a destination, 0.7 when there is none
SuppliedRating(dest) == Get(dest, "accessibility_score", 70)

\* the destination of the request that became the stop loc
DestinationOf(destinations, loc) ==
    destinations[CHOOSE k \in 1..Len(destinations) : destinations[k].id = loc.id]

\* C23: the accessibility score of a route returned by
\* optimize_multi_stop_route is the mean of the ratings the caller supplied
\* with its stops, with 0.7 standing in only for a stop that came without
\* a rating.
C23_ScoreIsMeanOfSuppliedRatings ==
    Served("optimize_route") =>
        LET destinations == last.data.destinations
            route        == last.response.body.route
            stops        == route.route.locations
        IN  route.accessibility_score
                = Sum([k \in 1..Len(stops) |->
                          SuppliedRating(DestinationOf(destinations, stops[k]))])
                  \div Len(stops)

(***************************************************************************)
(* Empty branches.                                                         *)
(***************************************************************************)
\* at least one volunteer and no individual: success, and every volunteer
\* holds an empty assignment
FleetWithoutStops ==
    (/\ last.op = "optimize_volunteer_routes"
     /\ Get(last.data, "volunteers", <<>>) # <<>>
     /\ Get(last.data, "individuals", <<>>) = <<>>) =>
        /\ last.response.status = 200
        /\ LET routes == last.response.body.optimization.volunteer_routes
           IN  /\ DOMAIN routes = {last.data.volunteers[k].id :
                                      k \in 1..Len(last.data.volunteers)}
               /\ \A id \in DOMAIN routes : routes[id].individuals_count = 0

\* an individual and no resource: success, and an empty ranked list
ScoringWithoutResources ==
    (/\ last.op = "score_accessibility"
     /\ Get(last.data, "individual_location", None) # None
     /\ Get(last.data, "resources", <<>>) = <<>>) =>
        /\ last.response.status = 200
        /\ last.response.body.scored_resources = <<>>

\* every cell of the grid is within 5 km of a service
FullyCovered ==
    \A n \in 1..Len(ServedGrid) : MinServiceDistance(ServedGrid[n].center) <= 5000

\* a well-formed box whose grid is fully covered: success, no gap and no
\* recommendation
CoverageWithoutGaps ==
    (/\ last.op = "identify_service_gaps"
     /\ Get(last.data, "coverage_area", None) # None
     /\ BoxKeys \subseteq DOMAIN last.data.coverage_area
     /\ FullyCovered) =>
        /\ last.response.status = 200
        /\ last.response.body.analysis.total_gaps = 0
        /\ last.response.body.analysis.gap_details = <<>>
        /\ last.response.body.analysis.recommendations = <<>>

\* C24: valid input that leads to an empty branch gets an empty success
\* result and no error: volunteers and no individuals give every volunteer
\* an empty assignment, an individual and no resources give an empty
\* ranked list, a fully covered grid gives no gaps and no recommendations.
C24_EmptyBranchesSucceed ==
    last # NoCall =>
        FleetWithoutStops /\ ScoringWithoutResources /\ CoverageWithoutGaps

(***************************************************************************)
(* Properties of the distance.                                             *)
(***************************************************************************)
\* both points of the distance request lie in the coordinate domain
DistanceInDomain ==
    /\ Served("calculate_distance")
    /\ InDomain(last.data.origin) /\ InDomain(last.data.destination)

WithReversed(order, i, j) ==
    [k \in 1..Len(order) |->
        IF k - 1 >= i + 1 /\ k - 1 <= j THEN order[(i + 1 + j) - (k - 1) + 1]
        ELSE order[k]]

\* the pairs 0 <= i, i + 2 <= j < n
Pairs(n) == {<<i, j>> \in (0..(n - 1)) \X (0..(n - 1)) : i + 2 <= j}

\* the improver has returned because its last pass accepted no reversal
ReturnedUnimproved == frame[1].pc = "done" /\ ~frame[1].improved

\* C26: when 2-opt returns because its last pass accepted no reversal, the
\* order it returns is a local optimum: for no pair (i, j) with 0 <= i and
\* i + 2 <= j < n is the path with the positions i+1..j reversed strictly
\* shorter than the path of the order returned.
C26_ReturnedOrderIsLocalOptimum ==
    ReturnedUnimproved =>
        \A pair \in Pairs(Len(frame[1].route)) :
            TotalLength(request[1].start,
                        WithReversed(frame[1].route, pair[1], pair[2]))
                >= TotalLength(request[1].start, frame[1].route)

\* four stops returned after a pass that accepted a reversal and a pass
\* that accepted none; a reversal with i = 1 would make the path longer
C26_Witness ==
    /\ ReturnedUnimproved
    /\ frame[1].iterations >= 2
    /\ Len(frame[1].route) = 4
    /\ TotalLength(request[1].start, WithReversed(frame[1].route, 1, 3))
           > TotalLength(request[1].start, frame[1].route)

\* the orders of the stops of route that begin with another stop than
\* route does
OrdersFromAnotherStop(route) ==
    {order \in [1..Len(route) -> Range(route)] :
        IsPermutation(order, route) /\ order[1] # route[1]}

\* C27: 2-opt never moves the stop at position 0: while it runs and when
\* it returns, the first stop of a non-empty order is the stop the
\* nearest-neighbour construction picked first, a stop at least distance
\* from the start, even when an order that begins with another stop is
\* shorter.
C27_FirstStopStaysNearest ==
    ((InTwoOpt(1) \/ frame[1].pc = "done") /\ request[1].locations # <<>>) =>
        LET start == request[1].start
            first == frame[1].route[1]
        IN  /\ first = NearestNeighbour(start, request[1].locations, <<>>)[1]
            /\ first = Nearest(start, request[1].locations)
            /\ \A k \in 1..Len(request[1].locations) :
                   Away(start, first) <= Away(start, request[1].locations[k])

\* the improver has changed the order it returns, and an order that begins
\* with another stop is strictly shorter than it
C27_Witness ==
    /\ frame[1].pc = "done"
    /\ Len(frame[1].route) >= 3
    /\ frame[1].iterations >= 2
    /\ \E order \in OrdersFromAnotherStop(frame[1].route) :
           TotalLength(request[1].start, order)
               < TotalLength(request[1].start, frame[1].route)

(***************************************************************************)
(* The balance of the assignment.                                          *)
(***************************************************************************)
\* the numbers of stops the volunteers hold
Loads == {Len(last.assignments[id]) : id \in DOMAIN last.assignments}

\* the greatest of a non-empty set of numbers, and the least
Greatest(numbers) == CHOOSE x \in numbers : \A y \in numbers : y <= x
Least(numbers) == CHOOSE x \in numbers : \A y \in numbers : x <= y

\* the size of the largest cluster of the call, 0 when there is none
LargestCluster ==
    Greatest({0} \cup {Len(last.clusters[k]) : k \in 1..Len(last.clusters)})

\* C28: in _assign_clusters_to_volunteers with at least one volunteer,
\* after every step of the loop and when it returns, the greatest and the
\* least number of stops held by a volunteer differ by no more than the
\* size of the largest cluster.
C28_LoadsDifferByAtMostLargestCluster ==
    (last # NoCall /\ last.volunteers # <<>>) =>
        Greatest(Loads) - Least(Loads) <= LargestCluster

\* two volunteers and three clusters, returned: the loads differ by the
\* size of the largest cluster exactly
C28_Witness ==
    /\ last # NoCall
    /\ last.returned
    /\ Len(last.volunteers) = 2
    /\ Len(last.clusters) = 3
    /\ LargestCluster > 0
    /\ Greatest(Loads) - Least(Loads) = LargestCluster

(***************************************************************************)
(* The least accessibility score.                                          *)
(***************************************************************************)
\* C29: every resource score_resource_accessibility has scored is offered
\* public transport, so that neither the penalty for no option (0.4) nor
\* the mobility penalty (0.3) is taken; 1.0 plus the adjustments is never
\* below 0.4, so that the clamp at 0 changes nothing, and the score
\* reported is never below 0.4.
C29_ScoreNeverBelowPointFour ==
    Served("score_accessibility") =>
        \A k \in 1..Len(last.response.body.scored_resources) :
            LET scored == last.response.body.scored_resources[k]
                adjust == ScoredAdjustments(scored)
                raw    == 100 + Sum(adjust)
            IN  /\ scored.transport_options # <<>>
                /\ HasMode(scored.transport_options, "public_transport")
                /\ adjust[2] # -40
                /\ adjust[4] = 0
                /\ raw >= 40
                /\ scored.accessibility_score = Min(100, raw)
                /\ scored.accessibility_score >= 40

\* an individual with mobility issues and a resource 14 km away without
\* flags: every penalty that can be taken is taken, and the score is 0.4
C29_Witness ==
    /\ Served("score_accessibility")
    /\ Impaired
    /\ \E k \in 1..Len(last.response.body.scored_resources) :
           LET scored == last.response.body.scored_resources[k]
           IN  /\ ScoredAdjustments(scored) = <<-30, -10, -20, 0, 0, 0>>
               /\ scored.accessibility_score = 40

(***************************************************************************)
(* The population density.                                                 *)
(***************************************************************************)
\* C30: the analysis identify_service_gaps returns is the one it returns
\* for the same services and the same box with any other population
\* density: the same gaps with the same priorities in the same order and
\* the same recommendations; every gap has the population estimate 0 and
\* the priority 1 minus its coverage score.
C30_DensityChangesNothing ==
    Served("identify_service_gaps") =>
        LET analysis == last.response.body.analysis
        IN  /\ \A density \in PopulationDensities :
                   analysis = IdentifyServiceGaps(last.data.service_locations,
                                                  last.data.coverage_area,
                                                  density)
            /\ \A k \in 1..Len(analysis.gap_details) :
                   /\ analysis.gap_details[k].population_estimate = 0
                   /\ analysis.gap_details[k].priority
                          = 10000 - analysis.gap_details[k].coverage_score
            /\ \A k \in 1..Len(analysis.recommendations) :
                   analysis.recommendations[k].estimated_impact = 0

\* a request with 5000 people at a cell that is a gap, and a gap of
\* another priority after it
C30_Witness ==
    /\ Served("identify_service_gaps")
    /\ last.data.population_density # <<>>
    /\ last.data.population_density[1].density > 1000
    /\ \E k, m \in 1..Len(last.response.body.analysis.gap_details) :
           LET gaps == last.response.body.analysis.gap_details
           IN  /\ gaps[k].location = <<last.data.population_density[1].lat,
                                       last.data.population_density[1].lon>>
               /\ gaps[k].priority < 10000
               /\ gaps[k].priority # gaps[m].priority

====
